---- MODULE Spec2Model ----
(***************************************************************************)
(* The Universal Tasker (src/app.py): the observe -> decide -> act ->      *)
(* verify loop that main() runs once per Streamlit re-render, together     *)
(* with the reply parsing of _call_minimax_api / verify_step_achieved and  *)
(* the stub of analyze_screenshot.                                         *)
(*                                                                         *)
(* State: the keys of st.session_state that drive the loop and the rows    *)
(* of the DuckDB tables sessions, audit_log and post_mortems.  One action  *)
(* per handler: StartTask (the "Start Task" button), RunStep (one pass     *)
(* through the loop body of main, lines 980-1245), Render (a run that      *)
(* skips the loop body and reaches the completion block, lines 1247-1302,  *)
(* with the "Start New Session" button the block draws), ViewLog and       *)
(* BackToCurrent (the "View full log" buttons of the sidebar and the       *)
(* button that leaves the log view), ShowLog (a run in the log view, where *)
(* main() ends at st.stop() before the loop body) and RecheckAutomation    *)
(* (the "Re-check automation" button of the sidebar).                      *)
(* A pass is not always run to its end: at an st.error or st.warning call  *)
(* Streamlit serves a pending rerun request by raising RerunException,     *)
(* and an instruction that the engine or a rule file wrote may raise       *)
(* SystemExit; neither is an Exception, so the pass is                     *)
(* left with the writes made so far (Left).  Once a session has ended,     *)
(* "Start Task" starts a further one in the same process.                  *)
(* What the environment does is bounded, not what the loop does: the       *)
(* clicks on "Start Task" (MaxTasks), the replies of the engine to         *)
(* decision requests (MaxReplies; of a pass that would ask for one more,   *)
(* only the failure of its before capture is followed), the passes left    *)
(* before their end (MaxLeft) and the sessions whose log is opened         *)
(* (MaxViewed).                                                            *)
(* ObservedSpec and TracedSpec are the same program with a fuller record   *)
(* of each pass (what the captures did, what the translation block did).   *)
(* ParseSpec applies                                                       *)
(* _call_minimax_api's reply parsing to replies drawn from a wider set     *)
(* than the loop is run on; TranslateSpec applies the rule translator      *)
(* (src/task_translator.py) to descriptions, environments and rule files.  *)
(* VerifySpec applies the verifiers' reply parsing, RefineSpec              *)
(* generate_refined_prompt and ExportSpec the rule export of               *)
(* src/scripts/analyze_audit_log.py, each to inputs drawn from a set.      *)
(***************************************************************************)
EXTENDS Integers, Sequences, FiniteSets, TLC

(***************************************************************************)
(* Bounds of the exploration.                                              *)
(***************************************************************************)
\* the "Max attempts" input (line 881: 1..100, default 10) ranges over
\* 1..MaxBudget
MaxBudget == 2
\* the largest total_steps value a reply carries
MaxPlanned == 3
\* the clicks on "Start Task" that start a task in one process
MaxTasks == 2
\* the replies the reasoning engine gives to the decision requests of one
\* process
MaxReplies == 2
\* the sessions of the sidebar's list whose log the operator opens, the
\* oldest first
MaxViewed == 1
\* the passes of one process that are left before their end: the rerun
\* requests that arrive during a pass, the instructions that raise
\* SystemExit
MaxLeft == 1

(***************************************************************************)
(* Program constants.                                                      *)
(***************************************************************************)
\* st.number_input(..., min_value=1, ...)
MinAttempts == 1
\* max(2, result["total_steps"])
MinAdoptedBudget == 2
\* the stub's total_steps on step 1
StubTotalSteps == 3
\* the stub's checkpoints on step 1
StubCheckpoints == <<2>>
\* step_number written by the generic exception handler
FaultStepNumber == 0

NoSession == "none"
\* the sessions StartTask creates, in the order of their creation (each
\* stands for a fresh uuid4), and a session of an earlier run that is
\* already in the store
TaskIds == <<"s1", "s2", "s3", "s4">>
NewSession == TaskIds[1]
OldSession == "s0"
SessionIds == {OldSession} \cup {TaskIds[i] : i \in 1..MaxTasks}

Terminal == {"success", "stuck", "lost", "error"}

(***************************************************************************)
(* JSON values as json.loads returns them, restricted to the types the     *)
(* replies of the model carry: null (also: key missing, since .get()       *)
(* returns None for both), string, integer, float, boolean, list of        *)
(* scalars.  A float is its text (json.loads reads Infinity and NaN) and   *)
(* its truncation int(x) where that is defined.                            *)
(***************************************************************************)
JNull == [t |-> "null", s |-> "", n |-> 0, l |-> <<>>]
JStr(x) == [t |-> "str", s |-> x, n |-> 0, l |-> <<>>]
JInt(k) == [t |-> "int", s |-> "", n |-> k, l |-> <<>>]
JFloat(x, k) == [t |-> "float", s |-> x, n |-> k, l |-> <<>>]
JBool(b) == [t |-> "bool", s |-> "", n |-> IF b THEN 1 ELSE 0, l |-> <<>>]
JList(q) == [t |-> "list", s |-> "", n |-> 0, l |-> q]

\* the floats int() cannot convert: OverflowError on the infinities,
\* ValueError on NaN
Infinite(v) == v.t = "float" /\ v.s \in {"inf", "-inf"}
NotANumber(v) == v.t = "float" /\ v.s = "nan"

\* Python truthiness of a JSON value (the `x or default` idiom)
Truthy(v) ==
    CASE v.t = "null" -> FALSE
      [] v.t = "str" -> v.s # ""
      [] v.t = "int" -> v.n # 0
      [] v.t = "float" -> v.s # "0.0"
      [] v.t = "bool" -> v.n = 1
      [] v.t = "list" -> Len(v.l) > 0

\* `a or b`
Or(a, b) == IF Truthy(a) THEN a ELSE b

\* str.strip().upper() on the strings the replies carry as status
StripUpper(x) ==
    CASE x = "lost" -> "LOST"
      [] x = "done" -> "DONE"
      [] x = " success " -> "SUCCESS"
      [] OTHER -> x

\* str.strip() on the strings the replies carry as thought or code
Strip(x) ==
    CASE x = "   " -> ""
      [] x = " pass " -> "pass"
      [] OTHER -> x

Max(a, b) == IF a >= b THEN a ELSE b

(***************************************************************************)
(* Replies of the reasoning engine, by what _call_minimax_api makes of     *)
(* them.  kind:                                                            *)
(*   "unreachable"  the request raised, base_resp.status_code # 0, or no   *)
(*                  choices;                                               *)
(*   "nonjson"      raw_content holds no JSON value;                       *)
(*   "nonobject"    raw_content is JSON but not an object (a list, ...);   *)
(*   "emptyobject"  raw_content is {};                                     *)
(*   "object"       raw_content holds a non-empty JSON object with the     *)
(*                  values below (JNull: key missing or null).             *)
(***************************************************************************)
MkReply(k, th, rs, co, stt, ts, cp) ==
    [kind |-> k, thought |-> th, reasoning |-> rs, code |-> co,
     status |-> stt, total_steps |-> ts, checkpoints |-> cp]

NoReply == MkReply("unreachable", JNull, JNull, JNull, JNull, JNull, JNull)

\* the values the replies of the loop carry: one per case the loop tells
\* apart (a thought that is blank or not, a code that is the no-op or not,
\* the three statuses, a plan that is absent, below 1 or adoptable, values
\* of a type the parser does not expect)
ThoughtValues == {JStr("open calculator"), JStr("   "), JInt(7)}
CodeValues == {JNull, JStr("code_a"), JInt(7)}
StatusValues == {JStr("CONTINUE"), JStr("SUCCESS"), JStr("lost"), JInt(5)}
TotalStepsValues == {JNull, JInt(-1), JInt(1), JInt(MaxPlanned)}
CheckpointValues == {JNull, JList(<<JInt(2)>>)}

\* on a later step the prompt asks for thought, code and status only; the
\* engine may send total_steps / checkpoints all the same
ObjectReplies(is_first) ==
    {MkReply("object", th, JNull, co, stt, ts, cp) :
        th \in ThoughtValues, co \in CodeValues, stt \in StatusValues,
        ts \in TotalStepsValues, cp \in CheckpointValues}

FailedReplies ==
    {MkReply(k, JNull, JNull, JNull, JNull, JNull, JNull) :
        k \in {"unreachable", "nonjson", "nonobject", "emptyobject"}}

Replies(is_first) == FailedReplies \cup ObjectReplies(is_first)

\* int(x) on the strings the replies carry as total_steps; JNull stands
\* for the ValueError
StrToInt(x) ==
    CASE x = "2" -> JInt(2)
      [] OTHER -> JNull

\* int(parsed.get("total_steps") or 0) or None, with TypeError and
\* ValueError mapped to None (lines 340-343)
ParseTotalSteps(v) ==
    LET x == Or(v, JInt(0))
        i == CASE x.t = "int" -> x
               [] x.t = "bool" -> JInt(x.n)
               [] x.t = "float" -> IF NotANumber(x) THEN JNull ELSE JInt(x.n)
               [] x.t = "str" -> StrToInt(x.s)
               [] OTHER -> JNull
    IN IF Truthy(i) THEN i ELSE JNull

\* the OverflowError of int(inf) is neither a TypeError nor a ValueError
TotalStepsRaises(v) == Infinite(v)

\* isinstance(x, (int, float)); bool is a subclass of int
IsNumber(e) == e.t \in {"int", "float", "bool"}

\* lines 344-348: [int(x) for x in raw_cp if isinstance(x, (int, float))]
ParseCheckpoints(v) ==
    IF v.t # "list" THEN <<>>
    ELSE LET nums == SelectSeq(v.l, IsNumber)
         IN [i \in 1..Len(nums) |-> nums[i].n]

\* int(x) on a float that is not finite raises inside the comprehension
CheckpointsRaise(v) ==
    v.t = "list" /\ \E i \in 1..Len(v.l) : Infinite(v.l[i]) \/ NotANumber(v.l[i])

DecisionStatuses == {"CONTINUE", "SUCCESS", "LOST"}

\* lines 334-336 on a value that is a string
NormalizeStatus(x) ==
    IF StripUpper(x) \in DecisionStatuses THEN StripUpper(x) ELSE "CONTINUE"

\* A decision as the functions hand it on.  tag "none": the call returned
\* None; "raise": an exception left the function; "ok": a dict.
\* total_steps = 0 stands for "key absent / None".
Decision(tg, th, co, stt, ts, cp) ==
    [tag |-> tg, thought |-> th, code |-> co, status |-> stt,
     total_steps |-> ts, checkpoints |-> cp]

NoneDecision == Decision("none", JNull, JNull, "", 0, <<>>)
RaiseDecision == Decision("raise", JNull, JNull, "", 0, <<>>)

\* (parsed.get("status") or "CONTINUE").strip().upper(): .strip() exists
\* on strings only
StatusRaises(reply) == Or(reply.status, JStr("CONTINUE")).t # "str"

\* _call_minimax_api from the reply on (lines 298-349)
CallMinimaxApi(reply, is_first) ==
    IF reply.kind # "object" THEN NoneDecision
    ELSE IF StatusRaises(reply) THEN RaiseDecision
    ELSE IF is_first /\ (TotalStepsRaises(reply.total_steps)
                           \/ CheckpointsRaise(reply.checkpoints))
         THEN RaiseDecision
    ELSE LET thought == Or(Or(reply.thought, reply.reasoning), JStr("No thought."))
             code == Or(reply.code, JStr("pass"))
             status == NormalizeStatus(Or(reply.status, JStr("CONTINUE")).s)
             ts == ParseTotalSteps(reply.total_steps)
         IN Decision("ok", thought, code, status,
                     IF is_first THEN ts.n ELSE 0,
                     IF is_first THEN ParseCheckpoints(reply.checkpoints) ELSE <<>>)

\* the stub of analyze_screenshot (lines 580-601), keyed on len(history)+1
StubDecision(step_num) ==
    IF step_num = 1
    THEN Decision("ok", JStr("Demo stub: Opening Calculator via Run dialog"),
                  JStr("stub_code_1"), "CONTINUE", StubTotalSteps, StubCheckpoints)
    ELSE IF step_num = 2
    THEN Decision("ok", JStr("Demo stub: Typing 'Hello World' in Calculator"),
                  JStr("stub_code_2"), "SUCCESS", 0, <<>>)
    ELSE Decision("ok", JStr("Goal achieved"), JStr("pass"), "SUCCESS", 0, <<>>)

\* x[:200] works on strings and lists
Sliceable(v) == v.t \in {"str", "list"}

\* analyze_screenshot (lines 550-601).  stub = USE_MINIMAX_STUB or no key.
\* The result carries src: "api" or "stub".
AnalyzeScreenshot(stub, reply, hist) ==
    LET is_first == Len(hist) = 0
        result == IF stub THEN NoneDecision ELSE CallMinimaxApi(reply, is_first)
        stubd == StubDecision(Len(hist) + 1)
    IN IF result.tag = "raise" THEN [d |-> RaiseDecision, src |-> "api"]
       ELSE IF result.tag = "none" THEN [d |-> stubd, src |-> "stub"]
       ELSE IF ~Sliceable(result.thought) \/ ~Sliceable(result.code)
            THEN [d |-> RaiseDecision, src |-> "api"]
       ELSE [d |-> result, src |-> "api"]

(***************************************************************************)
(* The verifier's replies, by what verify_step_achieved makes of them      *)
(* (lines 481-500): "unreachable" (request raised or base_resp error),     *)
(* "nonjson", "nonobject" (valid JSON, no {...} in it), "object" (the      *)
(* object the patterns find, or the content itself when it is {}) and      *)
(* "wrappedempty" (the object {} inside a fence or a sentence: the         *)
(* patterns find it, "not parsed" holds of it, and json.loads of the whole *)
(* content raises).                                                        *)
(***************************************************************************)
MkVerReply(k, a, r) == [kind |-> k, achieved |-> a, reason |-> r]

VerReplies ==
    {MkVerReply(k, JNull, JNull) :
        k \in {"unreachable", "nonjson", "nonobject", "wrappedempty"}}
        \cup {MkVerReply("object", JBool(TRUE), JStr("Calculator is open")),
              MkVerReply("object", JBool(FALSE), JStr("Calculator is not open")),
              MkVerReply("object", JNull, JNull)}

\* variant: every value that is not empty counts
IsAchieved_Truthy(v) == Truthy(v)

\* parsed.get("achieved") in (True, "true", "yes", 1); the float 1.0
\* equals 1
IsAchieved(v) ==
    \/ v.t = "bool" /\ v.n = 1
    \/ v.t = "str" /\ v.s \in {"true", "yes"}
    \/ v.t = "int" /\ v.n = 1
    \/ v.t = "float" /\ v.s = "1.0"

\* str(parsed.get("reason") or "").strip() or "No reason given."
ReasonText(v) ==
    LET x == Or(v, JStr(""))
        txt == IF x.t = "str" THEN Strip(x.s) ELSE "<repr>"
    IN IF txt = "" THEN "No reason given." ELSE txt

\* verify_step_achieved (lines 428-500).  tag "none": returned None;
\* "raise": parsed.get on a value that is not a dict; "ok": a result.
\* encoded = FALSE: the after screenshot could not be read.
VerifyStepAchieved(stub, encoded, vr) ==
    IF stub \/ ~encoded THEN [tag |-> "none", achieved |-> FALSE, reason |-> ""]
    ELSE IF vr.kind \in {"unreachable", "nonjson", "wrappedempty"}
         THEN [tag |-> "none", achieved |-> FALSE, reason |-> ""]
    ELSE IF vr.kind = "nonobject"
         THEN [tag |-> "raise", achieved |-> FALSE, reason |-> ""]
    ELSE [tag |-> "ok", achieved |-> IsAchieved(vr.achieved),
          reason |-> ReasonText(vr.reason)]

(***************************************************************************)
(* The rule-based translator (src/task_translator.py).  A text is the      *)
(* sequence of its pieces: words, the blank " " and the quotes; the text   *)
(* itself is their concatenation.  The words are those the translator's    *)
(* patterns tell apart.                                                    *)
(***************************************************************************)
\* the longest rule list of a rule file
MaxRules == 2

\* str.lower(), piece by piece: every piece of the texts below that holds
\* a capital has its entry, the other pieces are their own lower case
LowerPiece(a) ==
    CASE a = "Open" -> "open"
      [] a = "Calculator" -> "calculator"
      [] a = "CALC" -> "calc"
      [] a = "Type" -> "type"
      [] a = "Enter" -> "enter"
      [] a = "Hello" -> "hello"
      [] a = "World" -> "world"
      [] a = "macOS" -> "macos"
      [] a = "DARWIN" -> "darwin"
      [] a = "Windows" -> "windows"
      [] a = "Linux" -> "linux"
      [] a = "Browser: Firefox" -> "browser: firefox"
      [] a = "X" -> "x"
      [] a = "D" -> "d"
      [] a = "M" -> "m"
      [] a = "M2" -> "m2"
      [] a = "T" -> "t"
      [] a = "E" -> "e"
      [] a = "N" -> "n"
      [] a = "R" -> "r"
      [] a = "import pyautogui; pyautogui.hotkey('command', 'space'); pyautogui.write('Calculator'); pyautogui.press('enter')"
           -> "import pyautogui; pyautogui.hotkey('command', 'space'); pyautogui.write('calculator'); pyautogui.press('enter')"
      [] a = "import pyautogui; pyautogui.write('Hello World')"
           -> "import pyautogui; pyautogui.write('hello world')"
      [] OTHER -> a

Lower(t) == [i \in DOMAIN t |-> LowerPiece(t[i])]

\* str.strip(): the blanks at both ends go
StripText(t) ==
    LET solid == {i \in DOMAIN t : t[i] # " "}
        first == CHOOSE i \in solid : \A j \in solid : i <= j
        last_ == CHOOSE i \in solid : \A j \in solid : i >= j
    IN IF solid = {} THEN <<>> ELSE SubSeq(t, first, last_)

\* a occurs inside the word b
Inside(a, b) ==
    a = b \/ <<a, b>> \in {<<"calc", "calculator">>, <<"run", "prune">>}

\* `p in t` on texts: p is a run of pieces of t, or a single word that
\* occurs inside a word of t
Contains(p, t) ==
    \/ p = <<>>
    \/ Len(p) = 1 /\ \E i \in DOMAIN t : Inside(p[1], t[i])
    \/ \E i \in 1..(Len(t) - Len(p) + 1) : SubSeq(t, i, i + Len(p) - 1) = p

\* _is_macos / _modifier_key (lines 23-28)
IsMacos(user_env) ==
    Contains(<<"macos">>, Lower(user_env)) \/ Contains(<<"darwin">>, Lower(user_env))

ModifierKey(user_env) == IF IsMacos(user_env) THEN "command" ELSE "win"

\* code.replace("{modifier}", modifier)
ReplaceModifier(code, modifier) ==
    [i \in DOMAIN code |-> IF code[i] = "{modifier}" THEN modifier ELSE code[i]]

\* a rule of the rule file; <<>> for a code that is missing, null or ""
Rule(ps, c, cm) == [patterns |-> ps, code |-> c, code_macos |-> cm]

\* the rule file: kind "missing" (no file), "invalid" (not JSON, or a JSON
\* scalar), "list" (a list of rules), "rules" / "rules_list" (an object
\* with the list under that key), "other" (an object without such a key)
RuleFile(k, rs) == [kind |-> k, rules |-> rs]

\* load_rules (lines 31-44)
LoadRules(file) ==
    IF file.kind \in {"list", "rules", "rules_list"} THEN file.rules ELSE <<>>

\* what the translator returns: None, or a code
NoCode == [tag |-> "none", code |-> <<>>]
Code(c) == [tag |-> "code", code |-> c]

\* some pattern of the rule is in the text (lines 61-67)
RuleMatches(rule, text) ==
    \E k \in DOMAIN rule.patterns : Contains(Lower(rule.patterns[k]), text)

\* variant: the default code is taken on every platform
RuleCode_DefaultOnly(rule, use_macos_code) == rule.code

\* rule.get("code_macos" if use_macos_code else "code") or rule.get("code")
RuleCode(rule, use_macos_code) ==
    IF use_macos_code /\ rule.code_macos # <<>> THEN rule.code_macos ELSE rule.code

\* the rule returns a code (lines 59-72): it has some code, a pattern that
\* matches and a code for the platform
RuleYields(rule, text, use_macos_code) ==
    /\ rule.code # <<>> \/ rule.code_macos # <<>>
    /\ rule.patterns # <<>>
    /\ RuleMatches(rule, text)
    /\ RuleCode(rule, use_macos_code) # <<>>

\* lines 58-72: the loop over the file rules
FileRules(rules, text, modifier, use_macos_code) ==
    LET yielding == {i \in DOMAIN rules : RuleYields(rules[i], text, use_macos_code)}
        pick == CHOOSE i \in yielding : \A j \in yielding : i <= j
    IN IF yielding = {} THEN NoCode
       ELSE Code(StripText(ReplaceModifier(RuleCode(rules[pick], use_macos_code), modifier)))

\* the built-in codes (lines 77, 78, 85, 92)
MacLaunch ==
    <<"import pyautogui; pyautogui.hotkey('command', 'space'); pyautogui.write('Calculator'); pyautogui.press('enter')">>
WinLaunch ==
    <<"import pyautogui; pyautogui.hotkey('win', 'r'); pyautogui.write('calc'); pyautogui.press('enter')">>
TypeEnter(payload) ==
    <<"import pyautogui; pyautogui.write('">> \o payload \o <<"'); pyautogui.press('enter')">>
TypeHello == <<"import pyautogui; pyautogui.write('Hello World')">>

IsQuote(a) == a \in {"'", "\""}

\* the longest run of pieces other than quotes that starts at k
RunFrom(text, k) ==
    LET ends == {e \in k..Len(text) : \A m \in k..e : ~IsQuote(text[m])}
        e == CHOOSE x \in ends : \A y \in ends : x >= y
    IN SubSeq(text, k, e)

\* group 1 of  type\s+['"]?([^'"]+)['"]?\s*(?:and\s+)?(?:press\s+enter|then\s+enter)?
\* matched at the "type" in position i (line 82): the blanks after "type"
\* and one quote are passed over, the group is the longest run without a
\* quote (all that follows it in the pattern may match nothing); where no
\* such run starts there, the blanks give one back and the group is that
\* blank.  <<>> stands for no match at i.
GroupAt(text, i) ==
    LET solid == {j \in (i + 1)..Len(text) : text[j] # " "}
        j == IF solid = {} THEN Len(text) + 1
             ELSE CHOOSE x \in solid : \A y \in solid : x <= y
        blanks == j - i - 1
    IN IF blanks < 1 THEN <<>>
       ELSE IF j <= Len(text) /\ ~IsQuote(text[j]) THEN RunFrom(text, j)
       ELSE IF j + 1 <= Len(text) /\ ~IsQuote(text[j + 1]) THEN RunFrom(text, j + 1)
       ELSE IF blanks >= 2 THEN <<" ">>
       ELSE <<>>

\* re.search: the leftmost "type" where the pattern matches; the second
\* pattern of line 86 matches only where the first one does
TypeMatches(text) == {i \in DOMAIN text : text[i] = "type" /\ GroupAt(text, i) # <<>>}

TypeGroup(text) ==
    GroupAt(text, CHOOSE i \in TypeMatches(text) : \A k \in TypeMatches(text) : i <= k)

\* variant: typing is tried before the launch of the calculator
BuiltIn_TypeFirst(text, use_macos_code) ==
    IF /\ Contains(<<"type">>, text)
       /\ Contains(<<"enter">>, text) \/ Contains(<<"press", " ", "enter">>, text)
       /\ TypeMatches(text) # {}
    THEN Code(TypeEnter(StripText(TypeGroup(text))))
    ELSE IF /\ Contains(<<"calculator">>, text)
            /\ \/ Contains(<<"open">>, text)
               \/ Contains(<<"launch">>, text)
               \/ Contains(<<"run">>, text)
    THEN Code(IF use_macos_code THEN MacLaunch ELSE WinLaunch)
    ELSE IF Contains(<<"hello", " ", "world">>, text) /\ Contains(<<"type">>, text)
    THEN Code(TypeHello)
    ELSE NoCode

\* lines 74-94: the built-in rules, in the order of the code
BuiltIn(text, use_macos_code) ==
    IF /\ Contains(<<"calculator">>, text)
       /\ \/ Contains(<<"open">>, text)
          \/ Contains(<<"launch">>, text)
          \/ Contains(<<"run">>, text)
    THEN Code(IF use_macos_code THEN MacLaunch ELSE WinLaunch)
    ELSE IF /\ Contains(<<"type">>, text)
            /\ Contains(<<"enter">>, text) \/ Contains(<<"press", " ", "enter">>, text)
            /\ TypeMatches(text) # {}
    THEN Code(TypeEnter(StripText(TypeGroup(text))))
    ELSE IF Contains(<<"hello", " ", "world">>, text) /\ Contains(<<"type">>, text)
    THEN Code(TypeHello)
    ELSE NoCode

\* translate_task_to_code (lines 47-94)
TranslateTaskToCode(thought, user_env, file) ==
    LET text == Lower(StripText(thought))
        modifier == ModifierKey(user_env)
        use_macos_code == IsMacos(user_env)
        by_file == FileRules(LoadRules(file), text, modifier, use_macos_code)
    IN IF StripText(thought) = <<>> THEN NoCode
       ELSE IF by_file.tag = "code" THEN by_file
       ELSE BuiltIn(text, use_macos_code)

(***************************************************************************)
(* State.                                                                  *)
(***************************************************************************)
VARIABLES
    use_stub,             \* USE_MINIMAX_STUB or not MINIMAX_API_KEY
    session_id,           \* st.session_state.session_id
    step_number,          \* st.session_state.step_number
    max_steps,            \* st.session_state.max_steps
    history,              \* st.session_state.history
    is_running,           \* st.session_state.is_running
    planned_total_steps,  \* st.session_state.planned_total_steps (0: None)
    checkpoints,          \* st.session_state.checkpoints
    sessions,             \* table sessions: id -> [status, max_steps]
    audit_log,            \* table audit_log: id -> rows in insertion order
    post_mortems,         \* table post_mortems: id -> rows in insertion order
    validation_result,    \* st.session_state.validation_result, if the key is set
    completion,           \* what the latest render made of the completion block
    view_session_id,      \* st.session_state.view_session_id
    rerun_due,            \* st.rerun() was called, or a rerun request served, and
                          \* the run of main() it asks for has not been made
    calls,                \* per session: what the loop has called so far
    last,                 \* what the latest pass through the loop did
    parsing,              \* a reply handed to _call_minimax_api and its result
    translating,          \* a call of translate_task_to_code and its result
    verifying,            \* a reply handed to a verifier and its result
    refining,             \* a call of generate_refined_prompt and its result
    exporting             \* runs of the rule export (analyze_audit_log.py --export)

vars == <<use_stub, session_id, step_number, max_steps, history, is_running,
          planned_total_steps, checkpoints, sessions, audit_log, post_mortems,
          validation_result, completion, view_session_id, rerun_due, calls, last,
          parsing, translating, verifying, refining, exporting>>

\* a row of audit_log, projected to the columns the loop's bookkeeping is
\* about.  feedback is a text in fragments (<<>>: NULL); ver is
\* step_verification_achieved ("NULL", "True", "False").
AuditRow(n, st, oc, fb, va, vr) ==
    [step_number |-> n, status |-> st, outcome |-> oc, feedback |-> fb,
     ver |-> va, ver_reason |-> vr]

HistoryEntry(n, st, oc) == [step_number |-> n, status |-> st, outcome |-> oc]

NoRow == [status |-> "absent", max_steps |-> 0]
\* executed: the step numbers whose instruction was handed to exec, in
\* order; left: the passes that were left before their end
NoCalls == [before |-> 0, decide |-> 0, exec |-> 0, executed |-> <<>>, left |-> 0]
\* the record of a pass: the session and step it worked on, the budget read
\* at line 981, what the collaborators answered (before_ok, reply, rule,
\* api, exec, after, ver, ver_reason, validation) and what the loop made of
\* it (src, status, planned, thought, code_in, code, path).  rule / api:
\* what the rule translator / translate_step_to_code returned, "n/a" if
\* it was not called; after, validation: "ok" / "failed" for the capture,
\* "none" if it was not made; plan_free: the pass left the same records,
\* step number, statuses and budget as it does with another checkpoint
\* list and another result of the validation capture; at: the call at
\* which the pass was left before its end, "none" if it ran to its end
NoLast == [path |-> "none", at |-> "none", sid |-> NoSession, step |-> 0, budget |-> 0,
           before_ok |-> TRUE, reply |-> "none", src |-> "none",
           status |-> "none", planned |-> 0, thought |-> "none",
           code_in |-> "none", rule |-> "n/a", api |-> "n/a", code |-> "none",
           exec |-> "none", after |-> "none",
           ver |-> "none", ver_reason |-> "", validation |-> "none",
           plan_free |-> TRUE]

\* a session of an earlier run, as the loop leaves it in the store
OldRow == [status |-> "success", max_steps |-> 2]
OldLog == <<AuditRow(1, "CONTINUE", "Pass", <<>>, "NULL", "NULL"),
            AuditRow(2, "SUCCESS", "Pass", <<>>, "NULL", "NULL")>>

\* the key validation_result is not in st.session_state
NoValidation == [set |-> FALSE, tag |-> "none", achieved |-> FALSE, reason |-> ""]

\* no reply has been handed to the parser
NoParsing == [reply |-> NoReply, is_first |-> TRUE, done |-> FALSE, out |-> NoneDecision]

\* no reply has been handed to a verifier
NoVerifying ==
    [fn |-> "step", encoded |-> TRUE, reply |-> MkVerReply("unreachable", JNull, JNull),
     done |-> FALSE, out |-> [tag |-> "none", achieved |-> FALSE, reason |-> ""]]

\* generate_refined_prompt has not been called
NoRefining ==
    [goal |-> JNull, rows |-> <<>>, done |-> FALSE,
     out |-> [goal |-> "", text |-> "", notes |-> <<>>]]

\* the export has not been run
NoExporting ==
    [store |-> <<>>, file |-> RuleFile("missing", <<>>), runs |-> 0,
     before |-> RuleFile("missing", <<>>), first |-> RuleFile("missing", <<>>),
     rows |-> <<>>]

\* the rule translator has not been called
NoTranslating ==
    [thought |-> <<>>, user_env |-> <<>>, file |-> RuleFile("missing", <<>>),
     done |-> FALSE, out |-> NoCode]

\* main(), lines 646-674, on the first render of a process; the store
\* holds the earlier session, which has no post-mortem
LoopInit ==
    /\ use_stub \in BOOLEAN
    /\ session_id = NoSession
    /\ step_number = 0
    /\ max_steps = 10
    /\ history = <<>>
    /\ is_running = FALSE
    /\ planned_total_steps = 0
    /\ checkpoints = <<>>
    /\ sessions = [i \in SessionIds |-> IF i = OldSession THEN OldRow ELSE NoRow]
    /\ audit_log = [i \in SessionIds |-> IF i = OldSession THEN OldLog ELSE <<>>]
    /\ post_mortems = [i \in SessionIds |-> <<>>]
    /\ validation_result = NoValidation
    /\ completion = "none"
    /\ view_session_id = NoSession
    /\ rerun_due = FALSE
    /\ calls = [i \in SessionIds |-> NoCalls]
    /\ last = NoLast

\* no function is being applied on its own
Idle ==
    /\ parsing = NoParsing
    /\ translating = NoTranslating
    /\ verifying = NoVerifying
    /\ refining = NoRefining
    /\ exporting = NoExporting

Init == LoopInit /\ Idle

\* lines 803-860: while view_session_id is set, main() shows the log of
\* that session and ends in st.stop() before the goal column, the loop
\* body and the completion block
Viewing == view_session_id # NoSession

\* the "Re-check automation" button of the sidebar (lines 682-686), drawn
\* in every run: its handler repeats the display check, whose result the
\* loop does not read, and ends in st.rerun()
RecheckAutomation ==
    /\ rerun_due' = TRUE
    /\ UNCHANGED <<use_stub, view_session_id, session_id, step_number,
                   max_steps, history, is_running, planned_total_steps,
                   checkpoints, sessions, audit_log, post_mortems,
                   validation_result, completion, calls, last, parsing,
                   translating, verifying, refining, exporting>>

\* the "View full log" button of a session in the sidebar (lines 727-729),
\* that of the session on view included
ViewLog ==
    /\ LET by_creation == <<OldSession>> \o TaskIds
       IN \E sid \in {s \in {by_creation[i] : i \in 1..MaxViewed} :
                          sessions[s].status # "absent"} :
            view_session_id' = sid
    /\ rerun_due' = TRUE
    /\ UNCHANGED <<use_stub, session_id, step_number, max_steps, history,
                   is_running, planned_total_steps, checkpoints, sessions,
                   audit_log, post_mortems, validation_result, completion,
                   calls, last, parsing, translating, verifying, refining,
                   exporting>>

\* a run of main() while a log is on view (lines 803-860): it draws the
\* log and ends in st.stop()
ShowLog ==
    /\ Viewing
    /\ rerun_due' = FALSE
    /\ UNCHANGED <<use_stub, view_session_id, session_id, step_number,
                   max_steps, history, is_running, planned_total_steps,
                   checkpoints, sessions, audit_log, post_mortems,
                   validation_result, completion, calls, last, parsing,
                   translating, verifying, refining, exporting>>

\* the "Back to current session" button (lines 806-808)
BackToCurrent ==
    /\ Viewing
    /\ view_session_id' = NoSession
    /\ rerun_due' = TRUE
    /\ UNCHANGED <<use_stub, session_id, step_number, max_steps, history,
                   is_running, planned_total_steps, checkpoints, sessions,
                   audit_log, post_mortems, validation_result, completion,
                   calls, last, parsing, translating, verifying, refining,
                   exporting>>

\* a further pass of the process can be left before its end: fewer than
\* MaxLeft have been
CanLeave ==
    LET RECURSIVE SumLeft(_)
        SumLeft(ids) ==
            IF ids = {} THEN 0
            ELSE LET s == CHOOSE x \in ids : TRUE
                 IN calls[s].left + SumLeft(ids \ {s})
    IN SumLeft(SessionIds) < MaxLeft

\* a rerun request is pending at an element call of the pass, or not
Pendings == IF CanLeave THEN BOOLEAN ELSE {FALSE}

\* str(uuid.uuid4()) (line 890): an id no session of the store has
FreshIds == {i \in 1..MaxTasks : sessions[TaskIds[i]].status = "absent"}
FreshId == TaskIds[CHOOSE i \in FreshIds : \A j \in FreshIds : i <= j]

\* the "Start Task" handler (lines 883-911).  The button is disabled while
\* is_running; once the session has ended it starts the next one, with a
\* new id, in the same process.  FreshIds # {}: the process has clicked
\* fewer than MaxTasks times.
StartTask ==
    /\ ~Viewing
    /\ ~is_running
    /\ FreshIds # {}
    /\ \E max_steps_input \in MinAttempts..MaxBudget :
          /\ session_id' = FreshId
          /\ step_number' = 1
          /\ max_steps' = max_steps_input
          /\ history' = <<>>
          /\ is_running' = TRUE
          /\ planned_total_steps' = 0
          /\ checkpoints' = <<>>
          /\ sessions' = [sessions EXCEPT ![FreshId] =
                             [status |-> "running", max_steps |-> max_steps_input]]
          /\ last' = [NoLast EXCEPT !.path = "start", !.sid = FreshId,
                                    !.budget = max_steps_input]
          /\ completion' = "none"
          /\ view_session_id' = NoSession
          /\ rerun_due' = TRUE
    /\ UNCHANGED <<use_stub, audit_log, post_mortems, validation_result, calls,
                   parsing, translating, verifying, refining, exporting>>

(***************************************************************************)
(* The loop body of main (lines 980-1245).  Its pieces work on a record    *)
(* of the values the step may change; RunStep commits the record the       *)
(* step ends with.                                                         *)
(***************************************************************************)
Cur ==
    [session_id |-> session_id, step_number |-> step_number,
     max_steps |-> max_steps, history |-> history, is_running |-> is_running,
     planned_total_steps |-> planned_total_steps, checkpoints |-> checkpoints,
     sessions |-> sessions, audit_log |-> audit_log, calls |-> calls,
     last |-> last]

\* the values the pass ends with are those of the session state and the
\* store; every way out of the pass ends in st.rerun() (lines 1008, 1094,
\* 1138, 1203, 1245) or serves a pending rerun request, except SystemExit
\* out of exec (line 1058), which ends the run with no run asked for
Commit(c) ==
    /\ session_id' = c.session_id
    /\ step_number' = c.step_number
    /\ max_steps' = c.max_steps
    /\ history' = c.history
    /\ is_running' = c.is_running
    /\ planned_total_steps' = c.planned_total_steps
    /\ checkpoints' = c.checkpoints
    /\ sessions' = c.sessions
    /\ audit_log' = c.audit_log
    /\ calls' = c.calls
    /\ last' = c.last
    /\ completion' = "none"
    /\ rerun_due' = ~(c.last.path = "left" /\ c.last.at = "exec")
    /\ UNCHANGED <<use_stub, view_session_id, post_mortems, validation_result, parsing, translating, verifying, refining, exporting>>

\* variant: the flag is cleared but the status is not written
UpdateStatus_Skipped(c, st) == c

\* UPDATE sessions SET status = ? WHERE id = ?
UpdateStatus(c, st) ==
    [c EXCEPT !.sessions[c.session_id].status = st]

\* variant: the statement is executed twice
InsertAudit_Twice(c, row) ==
    [c EXCEPT !.audit_log[c.session_id] = Append(Append(@, row), row)]

\* variant: the table keeps one row per session, the latest
InsertAudit_KeepsLatest(c, row) ==
    [c EXCEPT !.audit_log[c.session_id] = <<row>>]

\* INSERT INTO audit_log ...
InsertAudit(c, row) ==
    [c EXCEPT !.audit_log[c.session_id] = Append(@, row)]

\* variant: the guard does not look at is_running
LoopGuard_IgnoresRunning ==
    session_id # NoSession /\ step_number <= max_steps

\* line 994
LoopGuard ==
    is_running /\ session_id # NoSession /\ step_number <= max_steps

\* the step begins: lines 981-982 and 995-997 (one before capture)
BeginStep(c) ==
    [c EXCEPT !.calls[c.session_id].before = @ + 1,
              !.last = [NoLast EXCEPT !.path = "begun", !.sid = c.session_id,
                                      !.step = c.step_number,
                                      !.budget = c.max_steps]]

\* lines 1002-1008: the before capture failed
BeforeCaptureFault(c) ==
    LET c1 == UpdateStatus([c EXCEPT !.is_running = FALSE], "error")
    IN [c1 EXCEPT !.last.path = "capture_fault"]

\* the generic handler, lines 1204-1245
UnexpectedFault(c) ==
    LET c1 == UpdateStatus([c EXCEPT !.is_running = FALSE], "error")
        c2 == InsertAudit(c1, AuditRow(FaultStepNumber, "error", "Fail",
                                       <<"err", "\n\nTraceback:\n", "tb">>,
                                       "NULL", "NULL"))
    IN [c2 EXCEPT !.last.path = "unexpected_fault"]

\* line 1031 on string values; .strip() on another type raises
NeedsTranslation(d) ==
    /\ ~Truthy(d.code) \/ Strip(d.code.s) \in {"", "pass"}
    /\ Strip(Or(d.thought, JStr("")).s) # ""

TranslationRaises(d) ==
    \/ Truthy(d.code) /\ d.code.t # "str"
    \/ /\ ~Truthy(d.code) \/ Strip(d.code.s) \in {"", "pass"}
       /\ Truthy(d.thought) /\ d.thought.t # "str"

\* results of translate_task_rules: "" stands for None
RuleTranslations == {"", "code_rule"}
\* results of the engine's translate-only call; translate_step_to_code
\* returns None without a request under the stub configuration
ApiTranslations(stub) == IF stub THEN {""} ELSE {"", "code_api"}

\* lines 1031-1037: the code after the translation attempts
TranslatedCode(d, rule_out, api_out) ==
    LET translated == IF rule_out # "" THEN rule_out ELSE api_out
    IN IF translated # "" THEN translated ELSE d.code.s

\* variant: the planned step count is taken as it is
AdoptedBudget_NoFloor(total_steps) == total_steps

\* lines 1040-1045
AdoptedBudget(total_steps) == Max(MinAdoptedBudget, total_steps)

AdoptPlan(c, d) ==
    IF c.step_number # 1 THEN c
    ELSE LET c1 == IF d.total_steps >= 1
                   THEN [c EXCEPT !.planned_total_steps = d.total_steps,
                                  !.max_steps = AdoptedBudget(d.total_steps)]
                   ELSE c
         IN IF Len(d.checkpoints) > 0
            THEN [c1 EXCEPT !.checkpoints = d.checkpoints]
            ELSE c1

\* what exec(code_to_run) can do: "" (ran to the end), the message of the
\* Exception it raised, or the name of what it raised past `except
\* Exception` (lines 1064, 1204): SystemExit from exit() / sys.exit(),
\* which is a BaseException.  "pass" cannot raise; the stub's two fixed
\* pyautogui instructions (lines 585, 592) hold no exit() and can raise
\* Exceptions only; an instruction the engine or a rule file wrote can do
\* any of the three.
ExecFaults == {"boom", "Error: denied"}
ExecLeaves == {"SystemExit"}
ExecOutcomes(code) ==
    IF code = "pass" THEN {""}
    ELSE IF code \in {"stub_code_1", "stub_code_2"} THEN {""} \cup ExecFaults
    ELSE {""} \cup ExecFaults \cup ExecLeaves

\* lines 1064-1094: exec raised
ExecFault(c, d, msg) ==
    LET c1 == InsertAudit(c, AuditRow(c.step_number, d.status, "Fail",
                                      <<msg>>, "NULL", "NULL"))
        c2 == UpdateStatus(c1, "error")
    IN [c2 EXCEPT !.is_running = FALSE, !.last.path = "exec_fault"]

\* variant: the negative verification ends the session as "lost"
VerifyFail_Lost(c, d, v) ==
    LET c1 == InsertAudit(c, AuditRow(c.step_number, d.status, "Fail",
                                      <<"Step verification: ", v.reason>>,
                                      "False", v.reason))
        c2 == UpdateStatus(c1, "lost")
    IN [c2 EXCEPT !.is_running = FALSE, !.last.path = "verify_fail"]

\* lines 1110-1138: the verifier said "not achieved"
VerifyFail(c, d, v) ==
    LET c1 == InsertAudit(c, AuditRow(c.step_number, d.status, "Fail",
                                      <<"Step verification: ", v.reason>>,
                                      "False", v.reason))
        c2 == UpdateStatus(c1, "error")
    IN [c2 EXCEPT !.is_running = FALSE, !.last.path = "verify_fail"]

\* variant: the budget test is off by one
ApplyStatus_OffByOne(c, status, local_max) ==
    IF status = "SUCCESS"
    THEN UpdateStatus([c EXCEPT !.step_number = local_max + 1,
                                !.is_running = FALSE], "success")
    ELSE IF status = "LOST"
    THEN UpdateStatus([c EXCEPT !.step_number = local_max + 1,
                                !.is_running = FALSE], "stuck")
    ELSE LET c1 == [c EXCEPT !.step_number = @ + 1]
         IN IF c1.step_number > local_max + 1
            THEN UpdateStatus([c1 EXCEPT !.is_running = FALSE], "lost")
            ELSE c1

\* lines 1180-1201; local_max is the max_steps read at line 981
ApplyStatus(c, status, local_max) ==
    IF status = "SUCCESS"
    THEN UpdateStatus([c EXCEPT !.step_number = local_max + 1,
                                !.is_running = FALSE], "success")
    ELSE IF status = "LOST"
    THEN UpdateStatus([c EXCEPT !.step_number = local_max + 1,
                                !.is_running = FALSE], "stuck")
    ELSE LET c1 == [c EXCEPT !.step_number = @ + 1]
         IN IF c1.step_number > local_max
            THEN UpdateStatus([c1 EXCEPT !.is_running = FALSE], "lost")
            ELSE c1

\* variant: the step is logged but not appended to the history
CompleteStep_NoHistory(c, d, v, local_max) ==
    LET row == AuditRow(c.step_number, d.status, "Pass", <<>>,
                        IF v.tag = "ok" THEN "True" ELSE "NULL",
                        IF v.tag = "ok" THEN v.reason ELSE "NULL")
        c1 == InsertAudit(c, row)
        c2 == [c1 EXCEPT !.last.path = "completed"]
    IN ApplyStatus(c2, d.status, local_max)

\* lines 1145-1203: the step is logged and the decision status applied
CompleteStep(c, d, v, local_max) ==
    LET row == AuditRow(c.step_number, d.status, "Pass", <<>>,
                        IF v.tag = "ok" THEN "True" ELSE "NULL",
                        IF v.tag = "ok" THEN v.reason ELSE "NULL")
        c1 == InsertAudit(c, row)
        c2 == [c1 EXCEPT !.history =
                  Append(@, HistoryEntry(c.step_number, d.status, "Pass")),
                         !.last.path = "completed"]
    IN ApplyStatus(c2, d.status, local_max)

\* what verify_step_achieved returned, for the record of the pass
VerOutcome(v) ==
    CASE v.tag = "none" -> "unknown"
      [] v.tag = "raise" -> "raise"
      [] v.tag = "ok" -> IF v.achieved THEN "True" ELSE "False"

\* the steps of the checkpoint list
CheckpointSteps(c) == {c.checkpoints[i] : i \in DOMAIN c.checkpoints}

\* the results the validation capture can have in the pass
ValidationCaptures(c) ==
    IF c.step_number \in CheckpointSteps(c) THEN BOOLEAN ELSE {TRUE}

\* lines 1140-1143: at a checkpoint step the validation screenshot is
\* captured; capture_screenshot returns its failure and the loop does not
\* read what it returns
CheckpointCapture(c, snap_ok) ==
    IF c.step_number \in CheckpointSteps(c)
    THEN [c EXCEPT !.last.validation = IF snap_ok THEN "ok" ELSE "failed"]
    ELSE c

\* variant: the pass goes on after the negative verification was handled
AfterExec_FallsThrough(c, d, v, local_max, snap_ok) ==
    LET c1 == [c EXCEPT !.last.ver = VerOutcome(v),
                       !.last.ver_reason = v.reason]
    IN IF v.tag = "raise" THEN UnexpectedFault(c1)
       ELSE IF v.tag = "ok" /\ ~v.achieved
            THEN CompleteStep(CheckpointCapture(VerifyFail(c1, d, v), snap_ok),
                              d, v, local_max)
       ELSE CompleteStep(CheckpointCapture(c1, snap_ok), d, v, local_max)

\* lines 1096-1203, after exec returned.  st.rerun() raises a
\* script-control exception that `except Exception` does not catch, so
\* the pass ends in the branch that calls it.
AfterExec(c, d, v, local_max, snap_ok) ==
    LET c1 == [c EXCEPT !.last.ver = VerOutcome(v),
                       !.last.ver_reason = v.reason]
    IN IF v.tag = "raise" THEN UnexpectedFault(c1)
       ELSE IF v.tag = "ok" /\ ~v.achieved THEN VerifyFail(c1, d, v)
       ELSE CompleteStep(CheckpointCapture(c1, snap_ok), d, v, local_max)

\* line 1058: exec is entered
BeforeExec(c) ==
    [c EXCEPT !.calls[c.session_id].exec = @ + 1,
              !.calls[c.session_id].executed = Append(@, c.step_number)]

\* The pass is left before its end.  An element call (st.error at line
\* 200 in capture_screenshot, st.warning at lines 290, 300, 329, 478, 536)
\* serves a rerun request that arrived during the pass by raising a
\* script-control exception, and exec can raise SystemExit; both are
\* BaseExceptions, which pass the handlers of lines 1064 and 1204.  What
\* the pass has written so far stays: the plan adopted at lines 1040-1045
\* if it got there, no row, no status.
\* The record of such a pass keeps the step it worked on, the failed
\* before capture, the reply that was warned about, the plan it adopted
\* and what exec did.
Left(c, at) ==
    [c EXCEPT !.calls[c.session_id].left = @ + 1,
              !.last = [NoLast EXCEPT !.path = "left", !.at = at,
                                      !.sid = c.last.sid, !.step = c.last.step,
                                      !.budget = c.last.budget,
                                      !.before_ok = c.last.before_ok,
                                      !.reply = IF at = "decide" THEN c.last.reply
                                                ELSE "none",
                                      !.planned = IF at \in {"decide", "translate"} THEN 0
                                                  ELSE c.last.planned,
                                      !.exec = c.last.exec]]

\* the replies on which _call_minimax_api calls st.warning (lines 290,
\* 300, 329) before it returns None
WarnedReplies == {"unreachable", "nonjson", "nonobject", "emptyobject"}

\* the class of a reply, for the record of the pass
UnexpectedTypes(reply) ==
    \E v \in {reply.thought, reply.code, reply.status} : v.t \notin {"null", "str"}

ReplyClass(stub, reply) ==
    IF stub THEN "not_asked"
    ELSE IF reply.kind # "object" THEN reply.kind
    ELSE IF UnexpectedTypes(reply) THEN "badtypes"
    ELSE "wellformed"

\* the largest budget a session can have
LargestBudget ==
    Max(MaxBudget, Max(AdoptedBudget(MaxPlanned), AdoptedBudget(StubTotalSteps)))

\* other checkpoint lists a session could have: without steps, with
\* every step
OtherCheckpoints == {<<>>, [i \in 1..LargestBudget |-> i]}

\* what a pass leaves of the records, step numbers and statuses
Outcome(c) ==
    [audit_log |-> c.audit_log, history |-> c.history,
     step_number |-> c.step_number, max_steps |-> c.max_steps,
     is_running |-> c.is_running, sessions |-> c.sessions]

\* the yield point of the validation capture: the pass has come to line
\* 1140, the capture of line 1143 fails and capture_screenshot reports it
\* with st.error (line 200) while a rerun request is pending
LeavesAtValidation(c, v, snap_ok, pending) ==
    /\ pending /\ ~snap_ok
    /\ c.step_number \in CheckpointSteps(c)
    /\ v.tag # "raise"
    /\ ~(v.tag = "ok" /\ ~v.achieved)

\* lines 1096-1203 with that yield point
RestOfPass(c, d, v, local_max, snap_ok, pending) ==
    IF LeavesAtValidation(c, v, snap_ok, pending)
    THEN Left(CheckpointCapture([c EXCEPT !.last.ver = VerOutcome(v),
                                          !.last.ver_reason = v.reason], snap_ok),
              "validation_capture")
    ELSE AfterExec(c, d, v, local_max, snap_ok)

\* the pass from c (exec has returned) to done leaves what the same pass
\* leaves with any other checkpoint list and validation capture
PlanFree(c, d, v, local_max, pending, done) ==
    \A cps \in OtherCheckpoints : \A snap_ok \in BOOLEAN :
        Outcome(RestOfPass([c EXCEPT !.checkpoints = cps], d, v, local_max, snap_ok, pending))
            = Outcome(done)

\* what analyze_screenshot returns on the replies the engine may give,
\* each with the class of the reply it came from; by configuration and
\* len(history), the only things analyze_screenshot reads of the history
AnalysesByLen ==
    [stub \in BOOLEAN |-> [n \in 0..LargestBudget |->
        LET hist == [i \in 1..n |-> HistoryEntry(i, "CONTINUE", "Pass")]
        IN {[a |-> AnalyzeScreenshot(stub, r, hist), cls |-> ReplyClass(stub, r)] :
               r \in IF stub THEN {NoReply} ELSE Replies(n = 0)}]]

Analyses(stub, hist) == AnalysesByLen[stub][Len(hist)]

\* variant: translate_step_to_code is called first, the rule translator
\* if it returned nothing
Translations_ApiFirst(stub, d) ==
    IF NeedsTranslation(d)
    THEN {[rule |-> IF p # "" THEN "n/a" ELSE r, api |-> p,
           code |-> TranslatedCode(d, IF p # "" THEN "" ELSE r, p)] :
              r \in RuleTranslations, p \in ApiTranslations(stub)}
    ELSE {[rule |-> "n/a", api |-> "n/a", code |-> d.code.s]}

\* lines 1031-1037: the translators called, what they returned and the
\* code the block ends with
Translations(stub, d) ==
    IF NeedsTranslation(d)
    THEN {[rule |-> r, api |-> IF r # "" THEN "n/a" ELSE p,
           code |-> TranslatedCode(d, r, IF r # "" THEN "" ELSE p)] :
              r \in RuleTranslations, p \in ApiTranslations(stub)}
    ELSE {[rule |-> "n/a", api |-> "n/a", code |-> d.code.s]}

\* the after capture (line 1098) and what verify_step_achieved returns on
\* it and on the replies the verifier may give
\* warned: verify_step_achieved called st.warning (line 478), which it
\* does when the request raised
VerifyResultsBy ==
    [stub \in BOOLEAN |->
        {[after_ok |-> after_ok, v |-> VerifyStepAchieved(stub, after_ok, vr),
          warned |-> ~stub /\ after_ok /\ vr.kind = "unreachable"] :
            after_ok \in BOOLEAN, vr \in VerReplies}]

VerifyResults(stub) == VerifyResultsBy[stub]

\* the replies the engine can give to the decision request of this pass
\* (the stub computes its reply from the history); none once the engine
\* has given MaxReplies replies
EngineReplies ==
    LET RECURSIVE SumDecide(_)
        SumDecide(ids) ==
            IF ids = {} THEN 0
            ELSE LET s == CHOOSE x \in ids : TRUE
                 IN calls[s].decide + SumDecide(ids \ {s})
    IN IF use_stub \/ SumDecide(SessionIds) < MaxReplies
       THEN Analyses(use_stub, history)
       ELSE {}

\* What one pass through the loop body can leave.  observed: what the
\* record of the pass keeps beyond its path, of "translation" (what the
\* translation block did) and "captures" (what the after capture and the
\* validation capture did).  pending: a rerun request arrived during the
\* pass and is served at the element call the pass has come to (the after
\* capture of the fault path, line 1070, leaves the pass if it fails with a
\* request pending).  A request may be pending at line 1140 whether or not
\* the validation capture then fails; it leaves the pass only if it does.
\* lines 1096-1203 and the record of the pass
AfterExecResults(observed, c3, d, local_max) ==
    UNION {
        LET c4 == IF "captures" \notin observed THEN c3
                  ELSE [c3 EXCEPT !.last.after =
                          IF r.after_ok THEN "ok" ELSE "failed"]
        IN (IF ~r.after_ok /\ CanLeave THEN {Left(c4, "after_capture")} ELSE {})
           \cup (IF r.warned /\ CanLeave THEN {Left(c4, "verify")} ELSE {})
           \cup UNION {
                {LET c5 == RestOfPass(c4, d, r.v, local_max, snap_ok, pending)
                 IN IF "captures" \in observed
                    THEN [c5 EXCEPT !.last.plan_free =
                            PlanFree(c4, d, r.v, local_max, pending, c5)]
                    ELSE [c5 EXCEPT !.last.validation = "none"] :
                   pending \in {p \in BOOLEAN :
                                  LeavesAtValidation(c4, r.v, snap_ok, p) => CanLeave}} :
                snap_ok \in ValidationCaptures(c3)} :
        r \in VerifyResults(use_stub)}

\* lines 1057-1094: exec and what it raised
ExecResults(observed, c2, d, code, local_max) ==
    UNION {
        LET c3 == [c2 EXCEPT !.last.exec = IF msg = "" THEN "ok" ELSE msg]
        IN IF msg \in ExecLeaves
           THEN (IF CanLeave THEN {Left(c3, "exec")} ELSE {})
           ELSE IF msg # ""
           THEN {IF pending THEN Left(c3, "after_capture")
                 ELSE ExecFault(c3, d, msg) : pending \in Pendings}
           ELSE AfterExecResults(observed, c3, d, local_max) :
        msg \in ExecOutcomes(code)}

\* lines 1010-1094 on the decision x that analyze_screenshot returned
DecisionResults(observed, c0, x, local_max) ==
    LET cd == [c0 EXCEPT !.calls[c0.session_id].decide = @ + 1,
                         !.last.reply = x.cls]
        c1 == [cd EXCEPT !.last.src = x.a.src,
                         !.last.status = x.a.d.status,
                         !.last.planned = x.a.d.total_steps]
    IN (IF x.cls \in WarnedReplies /\ CanLeave THEN {Left(cd, "decide")} ELSE {})
       \cup
       (IF x.a.d.tag = "raise" \/ TranslationRaises(x.a.d)
        THEN {UnexpectedFault(c1)}
        ELSE UNION {
            LET d == [x.a.d EXCEPT !.code = JStr(tr.code)]
                ct == IF "translation" \notin observed THEN c1
                      ELSE [c1 EXCEPT
                               !.last.thought = Or(x.a.d.thought, JStr("")).s,
                               !.last.code_in = x.a.d.code.s,
                               !.last.rule = tr.rule,
                               !.last.api = tr.api,
                               !.last.code = tr.code]
                c2 == AdoptPlan(BeforeExec(ct), d)
            IN (IF ~use_stub /\ tr.api = "" /\ CanLeave
                THEN {Left(ct, "translate")} ELSE {})
               \cup ExecResults(observed, c2, d, tr.code, local_max) :
            tr \in Translations(use_stub, x.a.d)})

PassResults(observed) ==
    LET local_max == max_steps
        c0 == BeginStep(Cur)
        cb == [c0 EXCEPT !.last.before_ok = FALSE]
    IN {IF pending THEN Left(cb, "before_capture")
        ELSE BeforeCaptureFault(cb) : pending \in Pendings}
       \cup UNION {DecisionResults(observed, c0, x, local_max) :
                      x \in EngineReplies}

\* One pass through the loop body (lines 994-1245)
Pass(observed) ==
    /\ ~Viewing
    /\ LoopGuard
    /\ \E c \in PassResults(observed) : Commit(c)

RunStep == Pass({})

\* the same pass, with the record of its captures
RunStepObserved == Pass({"captures"})

\* the same pass, with the record of its translation block
RunStepTraced == Pass({"translation"})

(***************************************************************************)
(* The completion block of main (lines 1247-1302).  A pass reaches it when *)
(* the loop guard is false: every path of the loop body ends in            *)
(* st.rerun().  The "Start New Session" button is drawn inside the block   *)
(* and has no handler outside it.                                          *)
(***************************************************************************)
\* validate_goal_achieved (lines 352-425): the same reply handling as
\* verify_step_achieved, on the latest after screenshot
ValidateGoalAchieved(stub, encoded, vr) ==
    IF stub \/ ~encoded THEN [tag |-> "none", achieved |-> FALSE, reason |-> ""]
    ELSE IF vr.kind \in {"unreachable", "nonjson", "wrappedempty"}
         THEN [tag |-> "none", achieved |-> FALSE, reason |-> ""]
    ELSE IF vr.kind = "nonobject"
         THEN [tag |-> "raise", achieved |-> FALSE, reason |-> ""]
    ELSE [tag |-> "ok", achieved |-> IsAchieved(vr.achieved),
          reason |-> ReasonText(vr.reason)]

GoalResults(stub) ==
    {ValidateGoalAchieved(stub, enc, vr) : enc \in BOOLEAN, vr \in VerReplies}

\* feedback LIKE '%Error%' on the feedback texts of the model: the message
\* "Error: denied" of an instruction, and the traceback "tb" of the generic
\* handler (lines 1207-1211), whose last line names the class of the
\* exception (AttributeError, TypeError, ValueError, OverflowError here)
HasError(fb) == \E k \in DOMAIN fb : fb[k] \in {"Error: denied", "tb"}

\* generate_refined_prompt (lines 606-637): the improvement notes, one per
\* row the query selects; <<>> stands for "No errors encountered."
GenerateRefinedPrompt(log) ==
    LET failed == SelectSeq(log, LAMBDA r : HasError(r.feedback) \/ r.outcome = "Fail")
    IN [i \in 1..Len(failed) |-> failed[i].feedback]

PostMortemRow(refined, val) ==
    [perfect_prompt |-> refined, summary |-> "Demo completion",
     validation_achieved |-> IF val.tag = "ok"
                             THEN (IF val.achieved THEN "True" ELSE "False")
                             ELSE "NULL",
     validation_reason |-> IF val.tag = "ok" THEN val.reason ELSE "NULL"]

\* lines 1248-1251
Done == is_running /\ session_id # NoSession /\ step_number > max_steps

\* lines 1252-1302.  shot_ok: latest_screenshot is set and the file exists;
\* g: what validate_goal_achieved returns if it is called; cut: where a
\* rerun request is served: nowhere, at the first element call of the
\* block (line 1253), at the first element call after the validation
\* (lines 1274-1283), before the post-mortem is stored, or at the button
\* of line 1300, after it is; click: the run was started by a click on
\* "Start New Session", which the latest render had drawn.  An exception
\* of validate_goal_achieved leaves the block before anything is stored.
\* The handler of the button (lines 1301-1302) clears the session state,
\* and the next run sets the defaults of lines 646-669.
CompletionBlock(shot_ok, g, cut, click) ==
    LET validate == sessions[session_id].status = "success" /\ shot_ok
        asks == validate /\ ~validation_result.set
        cache == IF asks
                 THEN [set |-> TRUE, tag |-> g.tag, achieved |-> g.achieved,
                       reason |-> g.reason]
                 ELSE validation_result
        val == IF validate THEN cache ELSE NoValidation
        refined == GenerateRefinedPrompt(audit_log[session_id])
        stored == IF post_mortems[session_id] = <<>>
                  THEN [post_mortems EXCEPT ![session_id] =
                           Append(@, PostMortemRow(refined, val))]
                  ELSE post_mortems
    IN IF cut = "block"
       THEN /\ completion' = "left"
            /\ rerun_due' = TRUE
            /\ UNCHANGED <<validation_result, post_mortems, session_id,
                           step_number, max_steps, history, is_running,
                           planned_total_steps, checkpoints>>
       ELSE IF asks /\ g.tag = "raise"
       THEN /\ completion' = "fault"
            /\ rerun_due' = FALSE
            /\ UNCHANGED <<validation_result, post_mortems, session_id,
                           step_number, max_steps, history, is_running,
                           planned_total_steps, checkpoints>>
       ELSE IF cut = "validated"
       THEN /\ completion' = "left"
            /\ rerun_due' = TRUE
            /\ validation_result' = cache
            /\ UNCHANGED <<post_mortems, session_id, step_number, max_steps,
                           history, is_running, planned_total_steps,
                           checkpoints>>
       ELSE IF cut = "button"
       THEN /\ completion' = "left"
            /\ rerun_due' = TRUE
            /\ validation_result' = cache
            /\ post_mortems' = stored
            /\ UNCHANGED <<session_id, step_number, max_steps, history,
                           is_running, planned_total_steps, checkpoints>>
       ELSE IF click
       THEN /\ completion' = "none"
            /\ rerun_due' = TRUE
            /\ post_mortems' = stored
            /\ validation_result' = NoValidation
            /\ session_id' = NoSession
            /\ step_number' = 0
            /\ max_steps' = 10
            /\ history' = <<>>
            /\ is_running' = FALSE
            /\ planned_total_steps' = 0
            /\ checkpoints' = <<>>
       ELSE /\ completion' = "shown"
            /\ rerun_due' = FALSE
            /\ validation_result' = cache
            /\ post_mortems' = stored
            /\ UNCHANGED <<session_id, step_number, max_steps, history,
                           is_running, planned_total_steps, checkpoints>>

\* a run of main() that does not enter the loop body.  A rerun request
\* pending from the start of the run is served at the first element call
\* of the sidebar (line 679), before the completion block is come to.
Render ==
    /\ ~Viewing
    /\ ~LoopGuard
    /\ \E pending \in BOOLEAN :
          IF pending
          THEN /\ rerun_due' = TRUE
               /\ UNCHANGED <<completion, validation_result, post_mortems,
                              session_id, step_number, max_steps, history,
                              is_running, planned_total_steps, checkpoints>>
          ELSE IF Done
          THEN \E shot_ok \in BOOLEAN : \E g \in GoalResults(use_stub) :
               \E cut \in {"none", "block", "validated", "button"} :
               \E click \in (IF completion = "shown" THEN BOOLEAN ELSE {FALSE}) :
                  CompletionBlock(shot_ok, g, cut, click)
          ELSE /\ completion' = "hidden"
               /\ rerun_due' = FALSE
               /\ UNCHANGED <<validation_result, post_mortems, session_id,
                              step_number, max_steps, history, is_running,
                              planned_total_steps, checkpoints>>
    /\ UNCHANGED <<use_stub, view_session_id, sessions, audit_log, calls,
                   last, parsing, translating, verifying, refining, exporting>>

Next ==
    \/ StartTask \/ RunStep \/ Render
    \/ RecheckAutomation \/ ViewLog \/ ShowLog \/ BackToCurrent

Spec == Init /\ [][Next]_vars

\* the process configured with the stub (USE_MINIMAX_STUB, line 42)
StubInit == Init /\ use_stub = TRUE

\* st.rerun() is served: the run that is due is made.  It is a pass
\* through the loop body unless the process is showing the log of a
\* session, where it draws the log and ends in st.stop() (line 860) and
\* the loop waits for "Back to current session", whose handler ends in
\* st.rerun() (line 808).  A run that no st.rerun() asked for waits for an
\* interaction.  The fair runs are those of the process configured with
\* the stub.
FairSpec ==
    /\ StubInit
    /\ [][Next]_vars
    /\ WF_vars(rerun_due /\ RunStep)
    /\ WF_vars(rerun_due /\ ShowLog)

\* st.rerun() also starts the run that follows the last step, the one
\* that reaches the completion block
FairRenderSpec ==
    /\ StubInit
    /\ [][Next]_vars
    /\ WF_vars(rerun_due /\ RunStep)
    /\ WF_vars(rerun_due /\ ShowLog)
    /\ WF_vars(rerun_due /\ Render)

\* the program with the record of the captures of each pass
ObservedNext ==
    \/ StartTask \/ RunStepObserved \/ Render
    \/ RecheckAutomation \/ ViewLog \/ ShowLog \/ BackToCurrent

ObservedSpec == Init /\ [][ObservedNext]_vars

\* the program with the record of the translation block of each pass
TracedNext ==
    \/ StartTask \/ RunStepTraced \/ Render
    \/ RecheckAutomation \/ ViewLog \/ ShowLog \/ BackToCurrent

TracedSpec == Init /\ [][TracedNext]_vars

(***************************************************************************)
(* _call_minimax_api as a function of the reply: a reply is drawn, the     *)
(* parser is applied to it.                                                *)
(***************************************************************************)
\* the values a reply object may carry under each key
ParseThoughts == {JNull, JStr("open calculator"), JStr(""), JStr("   "), JInt(7)}
ParseReasonings == {JNull, JStr("because")}
ParseCodes == {JNull, JStr("code_a"), JStr(" pass "), JStr(""), JStr("   "), JInt(7)}
ParseStatuses ==
    {JNull, JStr("CONTINUE"), JStr("SUCCESS"), JStr("lost"), JStr(" success "),
     JStr("done"), JStr(""), JInt(5), JBool(TRUE), JBool(FALSE), JList(<<>>)}
ParseTotalStepsValues ==
    {JNull, JInt(0), JInt(-1), JInt(2), JStr("2"), JStr("two"), JBool(TRUE),
     JFloat("2.5", 2), JFloat("0.0", 0), JFloat("inf", 0), JFloat("nan", 0),
     JList(<<JInt(1)>>)}
ParseCheckpointValues ==
    {JNull, JStr("2"), JList(<<>>), JList(<<JInt(2)>>),
     JList(<<JFloat("2.5", 2), JBool(TRUE), JStr("3"), JInt(4)>>),
     JList(<<JFloat("inf", 0)>>), JList(<<JInt(1), JFloat("nan", 0)>>)}

ParseReplies ==
    FailedReplies \cup
    {MkReply("object", th, rs, co, stt, ts, cp) :
        th \in ParseThoughts, rs \in ParseReasonings, co \in ParseCodes,
        stt \in ParseStatuses, ts \in ParseTotalStepsValues,
        cp \in ParseCheckpointValues}

ParseInit ==
    /\ LoopInit
    /\ ~use_stub
    /\ parsing \in {[reply |-> r, is_first |-> f, done |-> FALSE, out |-> NoneDecision] :
                        r \in ParseReplies, f \in BOOLEAN}
    /\ translating = NoTranslating
    /\ verifying = NoVerifying
    /\ refining = NoRefining
    /\ exporting = NoExporting

\* the call of _call_minimax_api on the reply (lines 298-349)
Parse ==
    /\ ~parsing.done
    /\ parsing' = [parsing EXCEPT !.done = TRUE,
                                  !.out = CallMinimaxApi(parsing.reply, parsing.is_first)]
    /\ UNCHANGED <<use_stub, view_session_id, rerun_due, session_id, step_number, max_steps, history,
                   is_running, planned_total_steps, checkpoints, sessions,
                   audit_log, post_mortems, validation_result, completion,
                   calls, last, translating, verifying, refining, exporting>>

ParseNext == Parse

ParseSpec == ParseInit /\ [][ParseNext]_vars

(***************************************************************************)
(* translate_task_to_code as a function of the description, the            *)
(* environment text and the rule file: the three are drawn, the translator *)
(* is applied to them.                                                     *)
(***************************************************************************)
\* the words, one blank between two of them
Words(ws) ==
    [i \in 1..(2 * Len(ws) - 1) |-> IF i % 2 = 1 THEN ws[(i + 1) \div 2] ELSE " "]

\* a text with a blank before and after it
Padded(t) == <<" ">> \o t \o <<" ">>

Descriptions ==
    {Words(ws) : ws \in
        {<<"open", "calculator">>, <<"Open", "Calculator">>,
         <<"launch", "the", "calculator", "app">>, <<"prune", "calculator">>,
         <<"close", "calculator">>, <<"open", "notepad">>,
         <<"type", "3+3", "and", "press", "enter">>,
         <<"Type", "3+3", "and", "press", "Enter">>,
         <<"type", "3+3", "then", "enter">>, <<"type", "3+3">>,
         <<"type", "enter">>, <<"press", "enter", "then", "type">>,
         <<"type", "hello", "world">>,
         <<"type", "hello", "world", "and", "press", "enter">>,
         <<"open", "calculator", "and", "type", "3+3", "and", "press", "enter">>,
         <<"open", "calculator", "and", "type", "hello", "world">>,
         <<"click", "ok">>}}
    \cup {Padded(Words(<<"open", "calculator">>)),
          Padded(Words(<<"type", "3+3", "and", "press", "enter">>)),
          <<"type", " ", "'", "3+3", "'", " ", "and", " ", "press", " ", "enter">>,
          <<"type", " ", "\"", "Hello", " ", "World", "\"", " ", "then", " ", "enter">>,
          <<"press", " ", "enter", " ", "to", " ", "type", " ", "'">>,
          <<"enter", " ", "type", " ", " ", "'", "'">>,
          <<>>, <<" ", " ">>}

Environments ==
    {<<>>, <<"macOS", " ", "14.2.1", "; ", "Browser: Firefox">>, <<"DARWIN">>,
     <<"Windows", " ", "11">>, <<"Linux">>}

\* rules: with and without a code of their own for macOS, with the
\* placeholder, with a blank at the edge of the code or of the pattern,
\* with no pattern, with the empty pattern, with no code
RulePool ==
    {Rule(<<<<"CALC">>>>, <<" ", "X", " ", "{modifier}", " ">>, <<>>),
     Rule(<<<<"notepad">>, <<"calculator">>>>, <<"D", " ", "{modifier}">>,
          <<"M", " ", "{modifier}", "+", "{modifier}">>),
     Rule(<<<<"open">>>>, <<>>, <<"M2">>),
     Rule(<<<<"calculator", " ">>, <<"type", " ", "3+3">>>>, <<"T">>, <<>>),
     Rule(<<<<>>>>, <<"E">>, <<>>),
     Rule(<<>>, <<"N">>, <<>>),
     Rule(<<<<"enter">>>>, <<>>, <<>>)}

RECURSIVE RuleLists(_)
RuleLists(n) ==
    IF n = 0 THEN {<<>>}
    ELSE RuleLists(n - 1)
         \cup {Append(q, r) : q \in {x \in RuleLists(n - 1) : Len(x) = n - 1}, r \in RulePool}

RuleFiles ==
    {RuleFile(k, <<>>) : k \in {"missing", "invalid"}}
    \cup {RuleFile("list", rs) : rs \in RuleLists(MaxRules)}
    \cup {RuleFile(k, <<Rule(<<<<"open">>>>, <<"R">>, <<>>)>>) :
             k \in {"rules", "rules_list", "other"}}

TranslateInit ==
    /\ LoopInit
    /\ ~use_stub
    /\ parsing = NoParsing
    /\ verifying = NoVerifying
    /\ refining = NoRefining
    /\ exporting = NoExporting
    /\ translating \in {[thought |-> t, user_env |-> e, file |-> f,
                         done |-> FALSE, out |-> NoCode] :
                            t \in Descriptions, e \in Environments, f \in RuleFiles}

\* the call of translate_task_to_code (lines 47-94)
Translate ==
    /\ ~translating.done
    /\ translating' =
          [translating EXCEPT !.done = TRUE,
                              !.out = TranslateTaskToCode(translating.thought,
                                                          translating.user_env,
                                                          translating.file)]
    /\ UNCHANGED <<use_stub, view_session_id, rerun_due, session_id, step_number, max_steps, history,
                   is_running, planned_total_steps, checkpoints, sessions,
                   audit_log, post_mortems, validation_result, completion,
                   calls, last, parsing, verifying, refining, exporting>>

TranslateNext == Translate

TranslateSpec == TranslateInit /\ [][TranslateNext]_vars

(***************************************************************************)
(* generate_refined_prompt as a function of the session's row in sessions  *)
(* and its rows in audit_log: both are drawn, the function is applied.     *)
(***************************************************************************)
\* the longest log handed to generate_refined_prompt
MaxRows == 3

\* the prompt: the goal (in the heading and in the last line) and the
\* improvement notes, which are the fixed text or one note per selected
\* row, "- Avoided: {action} because {feedback}" (lines 613-637)
RefinedPrompt(goal, rows) ==
    LET selected == SelectSeq(rows, LAMBDA r : HasError(r.feedback) \/ r.outcome = "Fail")
    IN [goal |-> IF goal.t = "null" THEN "Unknown" ELSE goal.s,
        text |-> IF selected = <<>> THEN "No errors encountered." ELSE "",
        notes |-> [i \in 1..Len(selected) |->
                      [avoided |-> selected[i].action,
                       because |-> selected[i].feedback]]]

\* the rows of audit_log the loop writes, with the columns thought, code
\* ("NULL": NULL), action, feedback and outcome: a completed step (line
\* 1147), an execution
\* fault (line 1071), a negative verification (line 1116) and the row of
\* the generic handler (line 1221)
WrittenRows ==
    LET LogRow(th, co, ac, fb, oc) ==
            [thought |-> th, code |-> co, action |-> ac, feedback |-> fb,
             outcome |-> oc]
    IN {LogRow("open calculator", "code_a", "open calculator", <<>>, "Pass"),
        LogRow("type hello", "code_b", "Step failed (no retry)", <<"boom">>, "Fail"),
        LogRow("type hello", "code_a", "Step failed (no retry)", <<"Error: denied">>, "Fail"),
        LogRow("open calculator", "code_a", "open calculator",
               <<"Step verification: ", "Calculator is not open">>, "Fail"),
        LogRow("Task failed before or during first step.", "NULL",
               "Task initialization failed", <<"err", "\n\nTraceback:\n", "tb">>, "Fail")}

RECURSIVE Logs(_)
Logs(n) ==
    IF n = 0 THEN {<<>>}
    ELSE Logs(n - 1)
         \cup {Append(q, r) : q \in {x \in Logs(n - 1) : Len(x) = n - 1}, r \in WrittenRows}

RefineInit ==
    /\ LoopInit
    /\ parsing = NoParsing
    /\ translating = NoTranslating
    /\ verifying = NoVerifying
    /\ exporting = NoExporting
    /\ refining \in {[goal |-> g, rows |-> q, done |-> FALSE, out |-> NoRefining.out] :
                        g \in {JStr("open calculator"), JStr("type hello")},
                        q \in Logs(MaxRows)}

\* the call of generate_refined_prompt (lines 606-637)
Refine ==
    /\ ~refining.done
    /\ refining' = [refining EXCEPT !.done = TRUE,
                                    !.out = RefinedPrompt(refining.goal, refining.rows)]
    /\ UNCHANGED <<use_stub, view_session_id, rerun_due, session_id, step_number, max_steps, history,
                   is_running, planned_total_steps, checkpoints, sessions,
                   audit_log, post_mortems, validation_result, completion,
                   calls, last, parsing, translating, verifying, exporting>>

RefineSpec == RefineInit /\ [][Refine]_vars

(***************************************************************************)
(* The rule export, scripts/analyze_audit_log.py --export, as a function   *)
(* of the audit store and the rule file: both are drawn, and the export    *)
(* is run twice on the unchanged store.  Thoughts, codes and patterns are  *)
(* texts of the translator.                                                *)
(***************************************************************************)
\* the largest number of rows in the audit store
MaxStore == 2

\* the thoughts of the store, in the order of ORDER BY thought:
\* "", " ", " open calculator ", "Open Calculator", "type hello"
ThoughtOrder ==
    << <<>>, <<" ">>, <<" ", "open", " ", "calculator", " ">>,
       <<"Open", " ", "Calculator">>, <<"type", " ", "hello">> >>

\* the rows of the store, with the columns thought, code (a text or NULL)
\* and outcome: the same thought with two codes, two thoughts
\* with one pattern, a code with blanks around it, the codes the query
\* leaves out ("pass", NULL), the empty and the blank thought
StoredRows ==
    LET SqlText(t) == [null |-> FALSE, s |-> t]
        SqlNull == [null |-> TRUE, s |-> <<>>]
        Stored(th, co, oc) == [thought |-> th, code |-> co, outcome |-> oc]
    IN {Stored(ThoughtOrder[4], SqlText(<<"code_a">>), "Pass"),
        Stored(ThoughtOrder[4], SqlText(<<" ", "code_b", " ">>), "Fail"),
        Stored(ThoughtOrder[3], SqlText(<<"code_a">>), "Pass"),
        Stored(ThoughtOrder[5], SqlText(<<" ", "code_b", " ">>), "Pass"),
        Stored(ThoughtOrder[5], SqlText(<<"pass">>), "Pass"),
        Stored(ThoughtOrder[5], SqlNull, "Fail"),
        Stored(ThoughtOrder[1], SqlText(<<"code_a">>), "Pass"),
        Stored(ThoughtOrder[2], SqlText(<<"code_a">>), "Pass")}

RECURSIVE Stores(_)
Stores(n) ==
    IF n = 0 THEN {<<>>}
    ELSE Stores(n - 1)
         \cup {Append(q, r) : q \in {x \in Stores(n - 1) : Len(x) = n - 1}, r \in StoredRows}

\* WHERE code IS NOT NULL AND TRIM(code) != '' AND LOWER(TRIM(code)) != 'pass'
\* GROUP BY thought, code, outcome with COUNT(*) AS n
Groups(store) ==
    LET Selected(r) ==
            /\ ~r.code.null
            /\ StripText(r.code.s) # <<>>
            /\ Lower(StripText(r.code.s)) # <<"pass">>
    IN {[thought |-> r.thought, code |-> r.code.s, outcome |-> r.outcome,
         n |-> Cardinality({i \in DOMAIN store : store[i] = r})] :
           r \in {store[i] : i \in {j \in DOMAIN store : Selected(store[j])}}}

\* ORDER BY n DESC, thought: the orders the query may return its groups in;
\* groups with the same count and thought come in any order
QueryResults(store) ==
    LET G == Groups(store)
        k == Cardinality(G)
        ThoughtRank(t) == CHOOSE i \in DOMAIN ThoughtOrder : ThoughtOrder[i] = t
    IN {q \in [1..k -> G] :
           /\ \A i, j \in 1..k : i # j => q[i] # q[j]
           /\ \A i, j \in 1..k : i < j =>
                 \/ q[i].n > q[j].n
                 \/ /\ q[i].n = q[j].n
                    /\ ThoughtRank(q[i].thought) <= ThoughtRank(q[j].thought)}

\* lines 64-83: one rule for the first row of every thought, with the
\* thought stripped and in lower case as its only pattern (no thought of
\* the model is longer than the 80 characters kept); a thought that strips
\* to nothing gives no rule
RECURSIVE RulesToExport(_, _)
RulesToExport(rows, seen_thought) ==
    IF rows = <<>> THEN <<>>
    ELSE LET r == Head(rows)
             pattern == Lower(StripText(r.thought))
         IN IF r.thought # <<>> /\ r.code # <<>> /\ r.thought \notin seen_thought
            THEN (IF pattern # <<>>
                  THEN <<Rule(<<pattern>>, StripText(r.code), <<>>)>>
                  ELSE <<>>)
                 \o RulesToExport(Tail(rows), seen_thought \cup {r.thought})
            ELSE RulesToExport(Tail(rows), seen_thought)

\* lines 96-105: a rule is appended if no rule before it has its key,
\* tuple(sorted(r.get("patterns", []))): the keys of two rules are equal
\* if their lists have the same patterns the same number of times
RECURSIVE Merge(_, _)
Merge(existing, new) ==
    LET SameKey(r1, r2) ==
            /\ Len(r1.patterns) = Len(r2.patterns)
            /\ \A p \in {r1.patterns[i] : i \in DOMAIN r1.patterns}
                     \cup {r2.patterns[i] : i \in DOMAIN r2.patterns} :
                  Cardinality({i \in DOMAIN r1.patterns : r1.patterns[i] = p})
                      = Cardinality({i \in DOMAIN r2.patterns : r2.patterns[i] = p})
    IN IF new = <<>> THEN existing
       ELSE IF \E i \in DOMAIN existing : SameKey(existing[i], Head(new))
            THEN Merge(existing, Tail(new))
            ELSE Merge(Append(existing, Head(new)), Tail(new))

\* lines 87-107: the file the export leaves, for the rows the query
\* returned; nothing is written if there is no rule to export.  existing
\* (lines 89-95): the rules read from the file; an object is asked for its
\* key "rules" only
ExportRules(file, rows) ==
    LET rules_to_export == RulesToExport(rows, {})
        existing == IF file.kind \in {"list", "rules"} THEN file.rules ELSE <<>>
    IN IF rules_to_export = <<>> THEN file
       ELSE RuleFile("list", Merge(existing, rules_to_export))

\* the files the export finds; the rules they hold: one with the pattern
\* of a stored thought, one with two patterns, one with the same pattern
\* twice
ExportFiles ==
    LET pool == <<Rule(<<<<"open", " ", "calculator">>>>, <<"old">>, <<>>),
                  Rule(<<<<"notepad">>, <<"type", " ", "hello">>>>, <<"D">>, <<"M">>),
                  Rule(<<<<"type", " ", "hello">>, <<"type", " ", "hello">>>>,
                       <<"T">>, <<>>)>>
    IN {RuleFile(k, <<>>) : k \in {"missing", "invalid", "list"}}
       \cup {RuleFile("list", <<pool[i]>>) : i \in DOMAIN pool}
       \cup {RuleFile("list", <<pool[2], pool[1]>>)}
       \cup {RuleFile(k, <<pool[2], pool[1]>>) : k \in {"rules", "rules_list", "other"}}

ExportInit ==
    /\ LoopInit
    /\ parsing = NoParsing
    /\ translating = NoTranslating
    /\ verifying = NoVerifying
    /\ refining = NoRefining
    /\ exporting \in {[store |-> s, file |-> f, runs |-> 0, before |-> f,
                       first |-> f, rows |-> <<>>] :
                         s \in Stores(MaxStore), f \in ExportFiles}

\* a run of the script with --export on the unchanged store (main, lines
\* 25-109): before is the file it found, first the file the first run left
Export ==
    /\ exporting.runs < 2
    /\ \E rows \in QueryResults(exporting.store) :
          LET out == ExportRules(exporting.file, rows)
          IN exporting' = [exporting EXCEPT
                              !.runs = @ + 1,
                              !.before = exporting.file,
                              !.file = out,
                              !.first = IF exporting.runs = 0 THEN out ELSE @,
                              !.rows = rows]
    /\ UNCHANGED <<use_stub, view_session_id, rerun_due, session_id, step_number, max_steps, history,
                   is_running, planned_total_steps, checkpoints, sessions,
                   audit_log, post_mortems, validation_result, completion,
                   calls, last, parsing, translating, verifying, refining>>

ExportSpec == ExportInit /\ [][Export]_vars

(***************************************************************************)
(* verify_step_achieved and validate_goal_achieved as functions of the     *)
(* verifier's reply: a reply is drawn, one of the two is applied to it.    *)
(***************************************************************************)
\* the replies: the values of "achieved" and of "reason" an object carries
VerifierReplies ==
    LET AchievedValues ==
            {JNull, JBool(TRUE), JBool(FALSE), JStr("true"), JStr("yes"),
             JStr("True"), JStr("YES"), JStr("no"), JStr("1"), JStr(""), JInt(1),
             JInt(0), JInt(2), JFloat("1.0", 1), JFloat("0.0", 0),
             JList(<<JBool(TRUE)>>)}
        ReasonValues ==
            {JNull, JStr(""), JStr("   "), JStr("Calculator is open"), JInt(7),
             JInt(0), JList(<<>>)}
    IN {MkVerReply(k, JNull, JNull) :
           k \in {"unreachable", "nonjson", "nonobject", "wrappedempty"}}
       \cup {MkVerReply("object", a, r) : a \in AchievedValues, r \in ReasonValues}

VerifyInit ==
    /\ LoopInit
    /\ parsing = NoParsing
    /\ translating = NoTranslating
    /\ refining = NoRefining
    /\ exporting = NoExporting
    /\ verifying \in {[fn |-> f, encoded |-> e, reply |-> r, done |-> FALSE,
                       out |-> NoVerifying.out] :
                          f \in {"step", "goal"}, e \in BOOLEAN, r \in VerifierReplies}

\* the call of verify_step_achieved (lines 428-500) or of
\* validate_goal_achieved (lines 352-425)
Verify ==
    /\ ~verifying.done
    /\ verifying' =
          [verifying EXCEPT
              !.done = TRUE,
              !.out = IF verifying.fn = "step"
                      THEN VerifyStepAchieved(use_stub, verifying.encoded, verifying.reply)
                      ELSE ValidateGoalAchieved(use_stub, verifying.encoded, verifying.reply)]
    /\ UNCHANGED <<use_stub, view_session_id, rerun_due, session_id, step_number, max_steps, history,
                   is_running, planned_total_steps, checkpoints, sessions,
                   audit_log, post_mortems, validation_result, completion,
                   calls, last, parsing, translating, refining, exporting>>

VerifySpec == VerifyInit /\ [][Verify]_vars

(***************************************************************************)
(* Properties.                                                             *)
(***************************************************************************)
\* the budget of a session: the active session's is st.session_state's
Budget(s) == IF s = session_id THEN max_steps ELSE sessions[s].max_steps

\* the latest pass ran to its end with no capture, execution or
\* verification fault
FaultFree ==
    /\ last.sid # NoSession
    /\ last.before_ok
    /\ last.exec = "ok"
    /\ last.ver \in {"unknown", "True"}

\* C1: in every session the step numbers of the persisted StepRecords are
\* exactly 1..k, in order, for some k not above the session's step budget.
C1_ContiguousStepNumbers ==
    \A s \in SessionIds :
        /\ \A i \in 1..Len(audit_log[s]) : audit_log[s][i].step_number = i
        /\ Len(audit_log[s]) <= Budget(s)

\* C2: once the persisted status of a session is terminal, no step writes
\* another status for it.
C2_StatusMonotone ==
    [][\A s \in SessionIds :
          sessions[s].status \in Terminal =>
              sessions'[s].status = sessions[s].status]_vars

C2_Witness ==
    /\ sessions[OldSession].status \in Terminal
    /\ sessions[NewSession].status \in Terminal
    /\ calls[NewSession].before >= 2

\* C3: under fair re-rendering every started session reaches a terminal
\* status, and while it is the active session it has executed no more
\* instructions than the budget it runs with.
C3_Termination ==
    /\ [](session_id # NoSession => calls[session_id].exec <= max_steps)
    /\ (\E s \in SessionIds : sessions[s].status = "running")
          ~> (\A s \in SessionIds : sessions[s].status \in Terminal \cup {"absent"})

\* C4: a fault-free CONTINUE on the step whose number equals the budget
\* moves the session to lost, and no further step starts.
C4_LostAtBudget ==
    (/\ FaultFree
     /\ last.status = "CONTINUE"
     /\ last.step = last.budget \/ last.step = max_steps)
        => /\ sessions[last.sid].status = "lost"
           /\ ~is_running
           /\ ~LoopGuard

C4_Witness ==
    /\ FaultFree
    /\ last.status = "CONTINUE"
    /\ last.step = max_steps
    /\ last.step >= 2
    /\ sessions[last.sid].status = "lost"

\* C5: a fault-free CONTINUE on step 1 with a positive planned_step_count n
\* adopts the budget max(2, n) and leaves the session running at step 2,
\* whatever the initial budget; a fault-free CONTINUE below the current
\* budget keeps the session running and advances the step number by one.
C5_AdoptedBudgetGoverns ==
    (FaultFree /\ last.status = "CONTINUE")
        => /\ (last.step = 1 /\ last.planned >= 1)
                => /\ max_steps = Max(2, last.planned)
                   /\ is_running
                   /\ step_number = 2
                   /\ sessions[last.sid].status = "running"
           /\ (last.step < max_steps)
                => /\ is_running
                   /\ step_number = last.step + 1
                   /\ sessions[last.sid].status = "running"

\* C6: when the engine is unreachable on step 1 the stub decision is used
\* and, absent faults, the session is still running after step 1.
C6_StubKeepsRunning ==
    (FaultFree /\ last.step = 1 /\ last.reply = "unreachable")
        => /\ last.src = "stub"
           /\ is_running
           /\ sessions[last.sid].status = "running"

\* C7: when exec raises on step n, a StepRecord n with outcome Fail and the
\* fault message as failure detail is persisted, the session is in error,
\* and there is no StepRecord n+1 and no further step.
C7_ExecFaultStops ==
    (last.exec \notin {"none", "ok"})
        => LET log == audit_log[last.sid]
           IN /\ \E i \in DOMAIN log :
                    /\ log[i].step_number = last.step
                    /\ log[i].outcome = "Fail"
                    /\ log[i].feedback = <<last.exec>>
              /\ sessions[last.sid].status = "error"
              /\ \A i \in DOMAIN log : log[i].step_number # last.step + 1
              /\ ~LoopGuard

\* C8: when exec succeeded and verify_step returned achieved = false with
\* reason r, exactly one StepRecord is persisted for the step, with outcome
\* Fail and a failure detail that contains r, and the session is in error,
\* whatever the decision status.
C8_NegativeVerificationStops ==
    (last.exec = "ok" /\ last.ver = "False")
        => LET log == audit_log[last.sid]
               rows == {i \in DOMAIN log : log[i].step_number = last.step}
           IN /\ Cardinality(rows) = 1
              /\ \A i \in rows :
                    /\ log[i].outcome = "Fail"
                    /\ \E k \in DOMAIN log[i].feedback :
                          log[i].feedback[k] = last.ver_reason
              /\ sessions[last.sid].status = "error"
              /\ ~is_running

C8_Witness ==
    /\ last.exec = "ok"
    /\ last.ver = "False"
    /\ last.ver_reason = "Calculator is not open"
    /\ last.status = "SUCCESS"
    /\ sessions[last.sid].status = "error"

\* C9: a pass whose before capture fails sets the session to error without
\* a decision request, a translation or an execution, captures once, and
\* leaves no step to run.
C9_CaptureFaultStops ==
    [][(last' # last /\ ~last'.before_ok)
          => /\ sessions'[session_id].status = "error"
             /\ ~is_running'
             /\ calls' = [calls EXCEPT ![session_id].before = @ + 1]
             /\ audit_log' = audit_log
             /\ ~LoopGuard']_vars

\* C10: for every reply that is unreachable, not JSON, JSON but no object,
\* or an object with values of unexpected types, the stub decision is used
\* and the step goes on to execute it.
C10_ParseFaultNotFatal ==
    (last.reply \in {"unreachable", "nonjson", "nonobject", "badtypes"})
        => /\ last.src = "stub"
           /\ last.exec # "none"

\* C11: the decision parser is total: for every reply it returns none or a
\* decision whose thought, code and status are populated, the status being
\* one of CONTINUE, SUCCESS, LOST; it never raises.
C11_ParserTotal ==
    parsing.done
        => \/ parsing.out.tag = "none"
           \/ /\ parsing.out.tag = "ok"
              /\ Truthy(parsing.out.thought)
              /\ Truthy(parsing.out.code)
              /\ parsing.out.status \in DecisionStatuses

\* the outcome of the latest pass is that of its decision status alone
StatusAlone ==
    CASE last.status = "SUCCESS" -> sessions[last.sid].status = "success"
      [] last.status = "LOST" -> sessions[last.sid].status = "stuck"
      [] OTHER -> sessions[last.sid].status \in {"running", "lost"}

\* C12: when exec succeeded and verify_step gave no definite result
\* (disabled, unreachable, malformed reply, or a reply that is JSON but not
\* an object), one StepRecord is persisted for the step, with outcome Pass
\* and no verification result, and the session goes where the decision
\* status alone sends it.
C12_VerificationFaultNotFatal ==
    (last.exec = "ok" /\ last.ver \in {"unknown", "raise"})
        => LET log == audit_log[last.sid]
               rows == {i \in DOMAIN log : log[i].step_number = last.step}
           IN /\ Cardinality(rows) = 1
              /\ \A i \in rows : /\ log[i].outcome = "Pass"
                                 /\ log[i].ver = "NULL"
                                 /\ log[i].ver_reason = "NULL"
              /\ StatusAlone

\* C14: under fair re-rendering, a session that reached a terminal status
\* eventually has a PostMortem persisted.
C14_PostMortemPersisted ==
    (sessions[NewSession].status \in Terminal)
        ~> (post_mortems[NewSession] # <<>>)

\* C16: a session is lost only with as many StepRecords as its current
\* budget, all of them with decision status CONTINUE.
C16_LostOnlyAtBudget ==
    \A s \in SessionIds :
        sessions[s].status = "lost"
            => /\ Len(audit_log[s]) = Budget(s)
               /\ \A i \in DOMAIN audit_log[s] : audit_log[s][i].status = "CONTINUE"

\* C17: whenever the latest pass left the session in error, the last
\* StepRecord of the session carries the number of the step that failed.
C17_FatalPathPersistsRecord ==
    (last.sid # NoSession /\ sessions[last.sid].status = "error")
        => LET log == audit_log[last.sid]
           IN /\ Len(log) > 0
              /\ log[Len(log)].step_number = last.step

\* no step number occurs twice among the executed steps of a session
ExecutedOnce ==
    \A s \in SessionIds :
        \A i, j \in DOMAIN calls[s].executed :
            i # j => calls[s].executed[i] # calls[s].executed[j]

\* C18: for a session in a terminal status no pass captures, asks for a
\* decision, translates, executes, verifies or inserts a StepRecord any
\* more, and no step number of a session is executed twice.
C18_NoRetryAfterTermination ==
    /\ []ExecutedOnce
    /\ [][\A s \in SessionIds :
             sessions[s].status \in Terminal
                 => /\ calls'[s] = calls[s]
                    /\ audit_log'[s] = audit_log[s]]_vars

\* C19: one pass asks for at most one decision, executes at most one
\* instruction, persists at most one StepRecord and advances a running
\* session by at most one step.
C19_OneStepPerTrigger ==
    [][/\ \A s \in SessionIds :
             /\ calls'[s].before <= calls[s].before + 1
             /\ calls'[s].decide <= calls[s].decide + 1
             /\ calls'[s].exec <= calls[s].exec + 1
             /\ Len(audit_log'[s]) <= Len(audit_log[s]) + 1
       /\ is_running' => step_number' <= step_number + 1]_vars

C19_Witness ==
    /\ last.path = "completed"
    /\ last.step = 2
    /\ is_running
    /\ step_number = 3
    /\ calls[NewSession].decide = 2
    /\ calls[NewSession].exec = 2
    /\ Len(audit_log[NewSession]) = 2

\* C20: a persisted StepRecord is never updated or deleted: every step
\* leaves the rows a session already has in place, as a prefix of its rows.
C20_AppendOnly ==
    [][\A s \in SessionIds :
          /\ Len(audit_log'[s]) >= Len(audit_log[s])
          /\ SubSeq(audit_log'[s], 1, Len(audit_log[s])) = audit_log[s]]_vars

C20_Witness ==
    /\ Len(audit_log[NewSession]) = 2
    /\ audit_log[NewSession][2].outcome = "Fail"
    /\ audit_log[OldSession] = OldLog
    /\ completion = "hidden"

(***************************************************************************)
(* The rule translator (TranslateSpec).                                    *)
(***************************************************************************)
\* the rules of the file the call read, the platform and the modifier the
\* environment text names
CallRules == LoadRules(translating.file)
CallMac ==
    \E i \in DOMAIN translating.user_env :
        LowerPiece(translating.user_env[i]) \in {"macos", "darwin"}
CallModifier == IF CallMac THEN "command" ELSE "win"

\* the code c of a rule as it is returned: placeholders filled, trimmed
Filled(c) == StripText(ReplaceModifier(c, CallModifier))

\* the smallest number of a set of rule numbers
First(hits) == CHOOSE i \in hits : \A j \in hits : i <= j

\* the rules with a pattern whose lowercase text is in the text
Hits(text) ==
    {i \in DOMAIN CallRules :
        \E k \in DOMAIN CallRules[i].patterns :
            Contains(Lower(CallRules[i].patterns[k]), text)}

\* the rules with an instruction for the platform of the call
Usable ==
    {i \in DOMAIN CallRules :
        CallRules[i].code # <<>> \/ (CallMac /\ CallRules[i].code_macos # <<>>)}

\* the instructions of rule i, as they are returned
Instructions(i) ==
    {Filled(c) : c \in {CallRules[i].code, CallRules[i].code_macos} \ {<<>>}}

\* C21: for a description that is not blank and has no space at either
\* end, the instruction returned is that of the first rule, in load order,
\* with a pattern whose lowercase text is in the lowercased description; a
\* built-in rule is used only if no rule of the file has such a pattern.
C21_FirstMatchingRule ==
    (/\ translating.done
     /\ translating.thought # <<>>
     /\ StripText(translating.thought) = translating.thought) =>
        LET hits == Hits(Lower(translating.thought))
        IN IF hits # {}
           THEN /\ translating.out.tag = "code"
                /\ translating.out.code \in Instructions(First(hits))
           ELSE translating.out =
                    BuiltIn(Lower(StripText(translating.thought)), CallMac)

\* the payloads of the descriptions "type <payload> and press enter"
Payloads == {<<"3+3">>, <<"hello", " ", "world">>}

\* C22: with no rule of the file matching, the description
\* "type <payload> and press enter", its payload unquoted, translates to
\* typing exactly <payload> and pressing enter.
C22_TypedPayloadExact ==
    \A payload \in Payloads :
        /\ translating.done
        /\ Hits(Lower(StripText(translating.thought))) = {}
        /\ translating.thought =
              <<"type", " ">> \o payload \o <<" ", "and", " ", "press", " ", "enter">>
        => translating.out = Code(TypeEnter(payload))

\* C23: with no rule of the file matching, a description that has
\* "calculator" and one of "open", "launch", "run" in it translates to the
\* launch of the platform the environment names, whatever else it has in it.
C23_CalculatorLaunch ==
    LET text == Lower(translating.thought)
    IN /\ translating.done
       /\ Hits(Lower(StripText(translating.thought))) = {}
       /\ Contains(<<"calculator">>, text)
       /\ \E verb \in {"open", "launch", "run"} : Contains(<<verb>>, text)
       => translating.out = Code(IF CallMac THEN MacLaunch ELSE WinLaunch)

\* the description asks to type and to press enter as well, on macOS
C23_Witness ==
    /\ translating.done
    /\ Hits(Lower(StripText(translating.thought))) = {}
    /\ translating.thought =
          Words(<<"open", "calculator", "and", "type", "3+3", "and", "press", "enter">>)
    /\ translating.user_env = <<"DARWIN">>
    /\ translating.out = Code(MacLaunch)

\* C29: when a rule of the file yields, the instruction returned is the
\* rule's macOS instruction if it has one and the environment names macOS
\* or Darwin, else its default instruction, each placeholder replaced by
\* "command" (macOS, Darwin) or "win"; a matching rule with no instruction
\* for the platform is passed over.
C29_PlatformInstruction ==
    LET hits == Hits(Lower(StripText(translating.thought))) \cap Usable
        rule == CallRules[First(hits)]
    IN translating.done /\ StripText(translating.thought) # <<>> /\ hits # {}
       => translating.out =
             Code(Filled(IF CallMac /\ rule.code_macos # <<>>
                         THEN rule.code_macos ELSE rule.code))

\* on macOS the first rule matches and has no instruction; the second
\* rule's macOS instruction is returned, "command" in each placeholder
C29_Witness ==
    /\ translating.done
    /\ translating.user_env = <<"DARWIN">>
    /\ Len(CallRules) = 2
    /\ 1 \in Hits(Lower(StripText(translating.thought))) \ Usable
    /\ 2 \in Hits(Lower(StripText(translating.thought))) \cap Usable
    /\ translating.out = Code(<<"M", " ", "command", "+", "command">>)

(***************************************************************************)
(* The defaults of a decision (ParseSpec).                                 *)
(***************************************************************************)
\* the key is missing (or null), or its text is empty once trimmed
Blank(v) == v.t = "null" \/ (v.t = "str" /\ Strip(v.s) = "")

\* C30: every reply that parses to a JSON object gives a decision; a
\* missing or blank thought becomes "No thought.", a missing or blank
\* instruction becomes "pass", and the status is the trimmed, upper-cased
\* status of the reply if that is CONTINUE, SUCCESS or LOST, and CONTINUE
\* in every other case, the missing status included.
C30_DecisionDefaults ==
    parsing.done /\ parsing.reply.kind = "object" =>
        /\ parsing.out.tag = "ok"
        /\ Blank(parsing.reply.thought) => parsing.out.thought = JStr("No thought.")
        /\ Blank(parsing.reply.code) => parsing.out.code = JStr("pass")
        /\ parsing.out.status =
              IF /\ parsing.reply.status.t = "str"
                 /\ StripUpper(parsing.reply.status.s) \in {"CONTINUE", "SUCCESS", "LOST"}
              THEN StripUpper(parsing.reply.status.s)
              ELSE "CONTINUE"

(***************************************************************************)
(* The translation block (TracedSpec), the plan and the captures of a      *)
(* pass (ObservedSpec).                                                    *)
(***************************************************************************)
\* C25: in a pass that reaches exec, the translators are called only if
\* the decision's instruction is empty or "pass" and its thought is not
\* blank; translate_step_to_code is called only after the rule translator
\* returned nothing; the instruction executed is the first result that is
\* not empty, and the decision's own instruction if there is none.
C25_TranslationOrder ==
    last.exec # "none" =>
        /\ last.rule # "n/a" =>
              Strip(last.code_in) \in {"", "pass"} /\ Strip(last.thought) # ""
        /\ last.api # "n/a" => last.rule = ""
        /\ last.code = IF last.rule \notin {"n/a", ""} THEN last.rule
                       ELSE IF last.api \notin {"n/a", ""} THEN last.api
                       ELSE last.code_in
        /\ calls[last.sid].executed # <<>>
        /\ calls[last.sid].executed[Len(calls[last.sid].executed)] = last.step

\* the rule translator returned nothing, the engine's translation was
\* executed
C25_Witness ==
    /\ last.exec = "ok"
    /\ last.code_in = "pass"
    /\ last.rule = ""
    /\ last.api = "code_api"
    /\ last.code = "code_api"

\* C26: while a session runs, the budget changes only in the pass of step 1
\* that reaches the adoption with a planned step count of at least 1, and
\* then to max(2, planned step count); the checkpoint list and the planned
\* step count change in no pass of a later step; and a session that has
\* adopted a plan keeps its budget, its planned step count and its
\* checkpoint list from then on.
C26_PlanAdoptedAtStepOne ==
    [][is_running /\ session_id # NoSession =>
          /\ max_steps' = IF step_number = 1 /\ last'.exec # "none" /\ last'.planned >= 1
                          THEN Max(2, last'.planned)
                          ELSE max_steps
          /\ step_number # 1 =>
                /\ checkpoints' = checkpoints
                /\ planned_total_steps' = planned_total_steps
          /\ planned_total_steps # 0 =>
                /\ max_steps' = max_steps
                /\ planned_total_steps' = planned_total_steps
                /\ checkpoints' = checkpoints]_vars

\* C27: the checkpoint list and the validation capture change nothing a
\* pass leaves in the records, step number and statuses; a validation
\* capture is made at a step only if the step is in the checkpoint list,
\* was executed and was verified without a fault.
C27_CheckpointsInformational ==
    /\ last.plan_free
    /\ last.validation # "none" =>
          /\ \E i \in DOMAIN checkpoints : checkpoints[i] = last.step
          /\ last.exec = "ok"
          /\ last.ver \in {"unknown", "True"}
          /\ last.path = "completed"

\* C28: a pass whose after capture failed leaves the session in error, not
\* running.
C28_AfterCaptureFatal ==
    last.after = "failed" =>
        /\ sessions[last.sid].status = "error"
        /\ ~is_running

(***************************************************************************)
(* The plan fields of a decision (ParseSpec).                              *)
(***************************************************************************)
\* C31: in a decision the parser returns on the first step, the planned
\* step count is a positive integer or absent (0), the integer of the reply
\* if that is positive, and the checkpoints of a reply that carries no list
\* are the empty list; in a decision of a later step neither is present.
C31_PlanFields ==
    parsing.done /\ parsing.out.tag = "ok" =>
        IF parsing.is_first
        THEN /\ parsing.out.total_steps >= 0
             /\ parsing.reply.total_steps.t = "int" /\ parsing.reply.total_steps.n >= 1
                   => parsing.out.total_steps = parsing.reply.total_steps.n
             /\ parsing.reply.checkpoints.t # "list" => parsing.out.checkpoints = <<>>
        ELSE parsing.out.total_steps = 0 /\ parsing.out.checkpoints = <<>>

(***************************************************************************)
(* The results of the verifiers (VerifySpec).                              *)
(***************************************************************************)
\* C32: in a result of verify_step_achieved or validate_goal_achieved the
\* flag achieved is true exactly when the reply's achieved is the boolean
\* true, the string "true" or "yes" or the number 1, and the reason is
\* never empty: "No reason given." stands for a missing or blank one.
C32_AchievedAndReason ==
    verifying.done /\ verifying.out.tag = "ok" =>
        /\ verifying.out.achieved <=>
              verifying.reply.achieved \in
                  {JBool(TRUE), JStr("true"), JStr("yes"), JInt(1), JFloat("1.0", 1)}
        /\ verifying.out.reason # ""
        /\ verifying.reply.reason \in {JNull, JStr(""), JStr("   ")}
              => verifying.out.reason = "No reason given."

\* the goal verifier read "yes" with a blank reason
C32_Witness ==
    /\ verifying.done
    /\ verifying.fn = "goal"
    /\ verifying.reply.achieved = JStr("yes")
    /\ verifying.reply.reason = JStr("   ")
    /\ verifying.out = [tag |-> "ok", achieved |-> TRUE, reason |-> "No reason given."]

(***************************************************************************)
(* The synthesized prompt (RefineSpec).                                    *)
(***************************************************************************)
\* the rows whose feedback has the error indicator or whose outcome is Fail
FailedRows ==
    SelectSeq(refining.rows,
              LAMBDA r : \/ r.outcome = "Fail"
                         \/ {"Error: denied", "tb"} \cap {r.feedback[k] : k \in DOMAIN r.feedback} # {})

\* C33: the prompt has one note for each row whose feedback mentions an
\* error or whose outcome is Fail, the note citing the code of the row and
\* its feedback; it has the text "No errors encountered." exactly when
\* there is no such row; it has the goal in it.
C33_NotesCiteInstruction ==
    refining.done =>
        /\ Len(refining.out.notes) = Len(FailedRows)
        /\ \A i \in 1..Len(FailedRows) :
              /\ i \in DOMAIN refining.out.notes
              /\ refining.out.notes[i].avoided = FailedRows[i].code
              /\ refining.out.notes[i].because = FailedRows[i].feedback
        /\ refining.out.text = "No errors encountered." <=> FailedRows = <<>>
        /\ refining.out.goal = refining.goal.s

(***************************************************************************)
(* The loop's bookkeeping (Spec).                                          *)
(***************************************************************************)
\* C36: whenever the loop is about to request a decision (the session is
\* running and the loop guard holds), the history is one shorter than the
\* step number; so the stub decision, taken for history length + 1, is the
\* one of the step number, and the history is empty exactly at step 1.
C36_HistoryTracksStep ==
    LoopGuard =>
        /\ Len(history) = step_number - 1
        /\ StubDecision(Len(history) + 1) = StubDecision(step_number)
        /\ history = <<>> <=> step_number = 1

\* a decision was requested at step 1 and the loop is about to request
\* the next one
C36_Witness ==
    /\ LoopGuard
    /\ step_number = 2
    /\ Len(history) = 1
    /\ calls[session_id].decide = 1

\* the statuses a session ends with
TerminalStatuses == {"success", "stuck", "lost", "error"}

\* C37: between passes the running flag and the stored status of the
\* active session agree: the flag is set exactly when the status is
\* "running", a session whose flag is clear has a terminal status, and
\* without a session the flag is clear.
C37_FlagMatchesStatus ==
    IF session_id = NoSession
    THEN ~is_running
    ELSE /\ is_running <=> sessions[session_id].status = "running"
         /\ ~is_running => sessions[session_id].status \in TerminalStatuses

\* a pass cleared the flag of a started session
C37_Witness ==
    /\ session_id # NoSession
    /\ ~is_running
    /\ last.path = "exec_fault"
    /\ sessions[session_id].status = "error"

\* the last row of a session's log
LastRow(s) == audit_log[s][Len(audit_log[s])]

\* C38: the status a session ends with is the one its last row calls for:
\* a session with status "success" has a last row with decision status
\* SUCCESS, outcome Pass and no negative verification; one with status
\* "stuck" has a last row with LOST and Pass; a session whose last row has
\* outcome Fail has status "error".
C38_StatusJustifiedByLastRow ==
    \A s \in SessionIds :
        /\ sessions[s].status = "success" =>
              /\ audit_log[s] # <<>>
              /\ LastRow(s).status = "SUCCESS"
              /\ LastRow(s).outcome = "Pass"
              /\ LastRow(s).ver # "False"
        /\ sessions[s].status = "stuck" =>
              /\ audit_log[s] # <<>>
              /\ LastRow(s).status = "LOST"
              /\ LastRow(s).outcome = "Pass"
        /\ (audit_log[s] # <<>> /\ LastRow(s).outcome = "Fail") =>
              sessions[s].status = "error"

\* the started session ended after a negative verification of its
\* second step
C38_Witness ==
    /\ session_id # NoSession
    /\ sessions[session_id].status = "error"
    /\ Len(audit_log[session_id]) = 2
    /\ LastRow(session_id).outcome = "Fail"
    /\ LastRow(session_id).ver = "False"

\* C39: a session that is running between passes has a step number from 1
\* to its current budget; the budget adopted at step 1 is never below the
\* step the session goes on with.
C39_StepWithinBudget ==
    (is_running /\ session_id # NoSession) =>
        /\ 1 <= step_number
        /\ step_number <= max_steps

\* the session goes on with step 2 after step 1 replaced the budget 1 it
\* was started with by the one adopted for a plan of one step
C39_Witness ==
    /\ is_running
    /\ session_id # NoSession
    /\ step_number = 2
    /\ planned_total_steps = 1
    /\ max_steps = 2
    /\ sessions[session_id].max_steps = 1

(***************************************************************************)
(* The rule export (ExportSpec).                                           *)
(***************************************************************************)
\* the rules the translator reads from the file the last run found, and
\* from the file it left
RulesBefore == LoadRules(exporting.before)
RulesAfter == LoadRules(exporting.file)

PatternSet(rule) == {rule.patterns[i] : i \in DOMAIN rule.patterns}

\* the second run leaves the file the first run left
Idempotent == exporting.runs = 2 => exporting.file = exporting.first

\* the rules of the file are still there, in their places and unchanged
Kept ==
    /\ Len(RulesBefore) <= Len(RulesAfter)
    /\ \A i \in DOMAIN RulesBefore :
          i \in DOMAIN RulesAfter /\ RulesAfter[i] = RulesBefore[i]

\* a rule that was appended has the pattern set of no rule before it
AppendedAreNew ==
    \A i \in DOMAIN RulesAfter : i > Len(RulesBefore) =>
        \A j \in 1..(i - 1) : PatternSet(RulesAfter[j]) # PatternSet(RulesAfter[i])

\* no thought of the store has two rules among those appended
OnePerThought ==
    \A k \in DOMAIN exporting.store :
        Cardinality({i \in DOMAIN RulesAfter :
                        /\ i > Len(RulesBefore)
                        /\ RulesAfter[i].patterns =
                              <<Lower(StripText(exporting.store[k].thought))>>}) <= 1

\* C35: the rule export is idempotent and keeps what the file has: a
\* second export from the unchanged store leaves the file of the first;
\* an export removes, moves or changes no rule of the file, appends a rule
\* only if no rule before it has its pattern set, and appends at most one
\* rule for a thought.
C35_ExportKeepsRules ==
    exporting.runs >= 1 =>
        /\ Idempotent
        /\ Kept
        /\ AppendedAreNew
        /\ OnePerThought

====
